---- MODULE Spec2Model ----
(***************************************************************************)
(* A model of caddy-language-server: the tokenizer wrapper (Tokenize,      *)
(* addColumns), the recursive-descent parser (Parse), the semantic         *)
(* analyzer (Analyze) and the handler step that publishes diagnostics.     *)
(*                                                                         *)
(* Strings are TLA+ strings read as Go byte strings: position i of a Go    *)
(* string s (0-based) is SubSeq(s, i+1, i+1).  The two-byte character      *)
(* U+00E9 is written with the stand-in bytes "E" (lead byte) and "e"       *)
(* (continuation byte); every other byte of the model is a one-byte        *)
(* character.                                                              *)
(***************************************************************************)
EXTENDS Integers, Sequences, FiniteSets, TLC

VARIABLES src, tokens, pos, errors, file, diags, pc, store, ops, reply

vars == <<src, tokens, pos, errors, file, diags, pc, store, ops, reply>>

(***************************************************************************)
(* Go string helpers.                                                      *)
(***************************************************************************)
ByteAt(s, i) == SubSeq(s, i + 1, i + 1)

Slice(s, from, to) == SubSeq(s, from + 1, to)

HasPrefix(s, p) == Len(s) >= Len(p) /\ SubSeq(s, 1, Len(p)) = p

HasSuffix(s, p) == Len(s) >= Len(p) /\ SubSeq(s, Len(s) - Len(p) + 1, Len(s)) = p

Contains(s, p) == \E i \in 0..(Len(s) - Len(p)) : Slice(s, i, i + Len(p)) = p

\* strings.Index(s[from:], t): the offset relative to from, or -1
IndexFrom(s, from, t) ==
    LET hits == {i \in 0..(Len(s) - from - Len(t)) : Slice(s, from + i, from + i + Len(t)) = t}
    IN  IF hits = {} THEN -1 ELSE CHOOSE i \in hits : \A j \in hits : i <= j

LastIndex(s, t) ==
    LET hits == {i \in 0..(Len(s) - Len(t)) : Slice(s, i, i + Len(t)) = t}
    IN  IF hits = {} THEN -1 ELSE CHOOSE i \in hits : \A j \in hits : i >= j

\* a UTF-8 continuation byte (10xxxxxx): the second byte of U+00E9
IsContinuationByte(b) == b = "e"

\* utf8.RuneCountInString on valid UTF-8
RECURSIVE RuneCount(_)
RuneCount(s) ==
    IF s = "" THEN 0
    ELSE (IF IsContinuationByte(ByteAt(s, 0)) THEN 0 ELSE 1) + RuneCount(Slice(s, 1, Len(s)))

IsSpace(ch) == ch \in {" ", "\t", "\n", "\r"}

IsMarkerByte(ch) ==
    \E k \in 1..64 :
        SubSeq("abcdefghijklmnopqrstuvwxyzABCDEFGHIJKLMNOPQRSTUVWXYZ0123456789_-", k, k) = ch

RECURSIVE IsMarker(_)
IsMarker(s) ==
    IF s = "" THEN TRUE
    ELSE IsMarkerByte(ByteAt(s, 0)) /\ IsMarker(Slice(s, 1, Len(s)))

(***************************************************************************)
(* The Caddyfile tokenizer of the caddyserver dependency                   *)
(* (caddyconfig/caddyfile, lexer.next and Tokenize).  It splits the input  *)
(* at whitespace only; braces are ordinary bytes to it.  Backquoted        *)
(* strings are left out: the backquote is not a byte of any modelled input.*)
(***************************************************************************)
StringsSplitNL(s) ==
    LET RECURSIVE Go(_, _, _)
        Go(i, cur, acc) ==
            IF i >= Len(s) THEN Append(acc, cur)
            ELSE IF ByteAt(s, i) = "\n" THEN Go(i + 1, "", Append(acc, cur))
            ELSE Go(i + 1, cur \o ByteAt(s, i), acc)
    IN  Go(0, "", <<>>)

RemoveCR(s) ==
    LET RECURSIVE Go(_, _)
        Go(i, acc) ==
            IF i >= Len(s) THEN acc
            ELSE Go(i + 1, IF ByteAt(s, i) = "\r" THEN acc ELSE acc \o ByteAt(s, i))
    IN  Go(0, "")

\* lexer.finalizeHeredoc: strips the closing marker's padding from each line
FinalizeHeredoc(val, marker) ==
    LET lastNewline == LastIndex(val, "\n")
        lines == StringsSplitNL(Slice(val, 0, lastNewline + 1))
        padding == Slice(val, lastNewline + 1, Len(val) - Len(marker))
        RECURSIVE Go(_, _)
        Go(k, out) ==
            IF k > Len(lines) - 1 THEN
                [err |-> FALSE, out |-> IF Len(out) > 0 THEN Slice(out, 0, Len(out) - 1) ELSE out]
            ELSE IF lines[k] = "" \/ lines[k] = "\r" THEN Go(k + 1, out \o "\n")
            ELSE IF IndexFrom(lines[k], 0, padding) # 0 THEN [err |-> TRUE, out |-> ""]
            ELSE Go(k + 1, out \o RemoveCR(Slice(lines[k], Len(padding), Len(lines[k])) \o "\n"))
    IN  Go(1, "")

LexState(i, line, skipped) ==
    [i |-> i, line |-> line, skipped |-> skipped, val |-> "", tline |-> 0,
     comment |-> FALSE, quoted |-> FALSE, inHeredoc |-> FALSE,
     heredocEscaped |-> FALSE, escaped |-> FALSE, marker |-> ""]

LexResult(st, found, err, q) ==
    [found |-> found, err |-> err, text |-> st.val, wasQuoted |-> q, tline |-> st.tline,
     i |-> st.i, line |-> st.line, skipped |-> st.skipped]

\* lexer.next: reads one token starting at byte st.i
RECURSIVE LexNext(_, _)
LexNext(s, st) ==
    IF st.i >= Len(s) THEN
        IF st.val # "" THEN
            IF st.inHeredoc THEN LexResult(st, FALSE, TRUE, "") ELSE LexResult(st, TRUE, FALSE, "")
        ELSE LexResult(st, FALSE, FALSE, "")
    ELSE
    LET ch == ByteAt(s, st.i)
        st1 == [st EXCEPT !.i = @ + 1]
        \* "allow quoted text to wrap on multiple lines"
        nl(t) == IF ch = "\n" THEN [t EXCEPT !.line = @ + 1 + t.skipped, !.skipped = 0] ELSE t
    IN
    IF /\ ~st.quoted /\ ~(st.inHeredoc \/ st.heredocEscaped)
       /\ Len(st.val) > 1 /\ Slice(st.val, 0, 2) = "<<" THEN
        IF ch = " " THEN LexResult(st1, TRUE, FALSE, "")
        ELSE IF ch = "\r" THEN LexNext(s, st1)
        ELSE IF ch = "\n" THEN
            IF Len(st.val) = 2 THEN LexResult(st1, FALSE, TRUE, "")
            ELSE IF Slice(st.val, 0, 3) = "<<<" THEN LexResult(st1, FALSE, TRUE, "")
            ELSE IF ~IsMarker(Slice(st.val, 2, Len(st.val))) THEN LexResult(st1, FALSE, TRUE, "")
            ELSE LexNext(s, [st1 EXCEPT !.marker = Slice(st.val, 2, Len(st.val)),
                                        !.inHeredoc = TRUE, !.skipped = @ + 1, !.val = ""])
        ELSE LexNext(s, [st1 EXCEPT !.val = @ \o ch])
    ELSE IF st.inHeredoc THEN
        LET v == st.val \o ch
            sk == st.skipped + (IF ch = "\n" THEN 1 ELSE 0)
        IN  IF Len(v) >= Len(st.marker) /\ HasSuffix(v, st.marker) THEN
                LET fin == FinalizeHeredoc(v, st.marker)
                IN  IF fin.err THEN LexResult(st1, FALSE, TRUE, "")
                    ELSE LexResult([st1 EXCEPT !.val = fin.out, !.line = @ + sk, !.skipped = 0],
                                   TRUE, FALSE, "<")
            ELSE LexNext(s, [st1 EXCEPT !.val = v, !.skipped = sk])
    ELSE IF ~st.escaped /\ ch = "\\" THEN
        LexNext(s, [st1 EXCEPT !.escaped = TRUE])
    ELSE IF st.quoted THEN
        IF st.escaped THEN
            LexNext(s, nl([st1 EXCEPT !.val = (IF ch # "\"" THEN @ \o "\\" ELSE @) \o ch,
                                      !.escaped = FALSE]))
        ELSE IF ch = "\"" THEN
            LexResult(st1, TRUE, FALSE, ch)
        ELSE LexNext(s, nl([st1 EXCEPT !.val = @ \o ch]))
    ELSE IF IsSpace(ch) THEN
        IF ch = "\r" THEN LexNext(s, st1)
        ELSE
        LET st2 == IF ch # "\n" THEN st1
                   ELSE IF st.escaped
                        THEN [st1 EXCEPT !.skipped = @ + 1, !.escaped = FALSE, !.comment = FALSE]
                        ELSE [st1 EXCEPT !.line = @ + 1 + st.skipped, !.skipped = 0,
                                         !.comment = FALSE]
        IN  IF st.val # "" THEN LexResult(st2, TRUE, FALSE, "") ELSE LexNext(s, st2)
    ELSE IF st.comment \/ (ch = "#" /\ st.val = "") THEN
        LexNext(s, [st1 EXCEPT !.comment = TRUE])
    ELSE
        LET st3 == IF st.val = "" THEN [st1 EXCEPT !.tline = st.line] ELSE st1
        IN  IF st.val = "" /\ ch = "\"" THEN LexNext(s, [st3 EXCEPT !.quoted = TRUE])
            ELSE IF st.escaped THEN
                IF ch = "<"
                THEN LexNext(s, [st3 EXCEPT !.heredocEscaped = TRUE, !.escaped = FALSE,
                                            !.val = @ \o ch])
                ELSE LexNext(s, [st3 EXCEPT !.escaped = FALSE, !.val = @ \o "\\" \o ch])
            ELSE LexNext(s, [st3 EXCEPT !.val = @ \o ch])

\* caddyfile.Tokenize: (tokens, err); a caddy token is [text, line (1-based), quoted]
CaddyTokenize(s) ==
    LET RECURSIVE Loop(_, _, _, _)
        Loop(i, line, skipped, acc) ==
            LET r == LexNext(s, LexState(i, line, skipped))
            IN  IF r.err THEN [err |-> TRUE, tokens |-> <<>>]
                ELSE IF ~r.found THEN [err |-> FALSE, tokens |-> acc]
                ELSE Loop(r.i, r.line, r.skipped,
                          Append(acc, [text |-> r.text, line |-> r.tline,
                                       quoted |-> r.wasQuoted # ""]))
    IN  Loop(0, 1, 0, <<>>)

(***************************************************************************)
(* Tokens (ast.go) and the tokenizer wrapper (lexer.go).                   *)
(***************************************************************************)
Token(type, value, line, char) == [type |-> type, value |-> value, line |-> line, char |-> char]

\* Token{Type: EOF}: the zero value of every other field
EOFToken == Token("EOF", "", 0, 0)

Range(sl, sc, el, ec) == [startLine |-> sl, startChar |-> sc, endLine |-> el, endChar |-> ec]

\* Token.Range: the end is Char + len(Value), a length in bytes
TokenRange(t) == Range(t.line, t.char, t.line, t.char + Len(t.value))

\* buildLineStarts: lineStarts[i] of the source is BuildLineStarts(s)[i + 1]
BuildLineStarts(s) ==
    LET newlines == {i \in 0..(Len(s) - 1) : ByteAt(s, i) = "\n"}
        nth(k) == CHOOSE i \in newlines : Cardinality({j \in newlines : j < i}) = k - 1
    IN  <<0>> \o [k \in 1..Cardinality(newlines) |-> nth(k) + 1]

\* the first quote or heredoc opening at or after from, or -1
QuotePos(s, from) ==
    LET hits == {i \in from..(Len(s) - 1) :
                    \/ ByteAt(s, i) = "\""
                    \/ (ByteAt(s, i) = "<" /\ i + 1 < Len(s) /\ ByteAt(s, i + 1) = "<")}
    IN  IF hits = {} THEN -1 ELSE CHOOSE i \in hits : \A j \in hits : i <= j

\* "for end < len(src) && src[end] != '\n' { end++ }"
RECURSIVE LineEndFrom(_, _)
LineEndFrom(s, end) ==
    IF end < Len(s) /\ ByteAt(s, end) # "\n" THEN LineEndFrom(s, end + 1) ELSE end

\* the scan for the closing quote q, which stops at a newline
RECURSIVE QuoteEndFrom(_, _, _)
QuoteEndFrom(s, end, q) ==
    IF end < Len(s) /\ ByteAt(s, end) # q /\ ByteAt(s, end) # "\n"
    THEN QuoteEndFrom(s, end + 1, q)
    ELSE IF end < Len(s) /\ ByteAt(s, end) = q THEN end + 1 ELSE end

\* the loop body with every token that begins with a brace taken for the brace
AddColumn_BraceAtStart(s, lineStarts, lineEnd, ct) ==
    LET line0 == ct.line - 1
        lineStart == IF line0 < Len(lineStarts) THEN lineStarts[line0 + 1] ELSE 0
        searchFrom == IF line0 \in DOMAIN lineEnd /\ lineEnd[line0] > lineStart
                      THEN lineEnd[line0] ELSE lineStart
        put(end) == [l \in DOMAIN lineEnd \cup {line0} |-> IF l = line0 THEN end ELSE lineEnd[l]]
    IN  IF ct.quoted THEN
            LET qpos == QuotePos(s, searchFrom)
            IN  IF qpos >= 0 THEN
                    LET end == IF ByteAt(s, qpos) = "<" THEN LineEndFrom(s, qpos)
                               ELSE QuoteEndFrom(s, qpos + 1, ByteAt(s, qpos))
                    IN  [tok |-> Token("STRING", Slice(s, qpos, end), line0, qpos - lineStart),
                         lineEnd |-> put(end)]
                ELSE [tok |-> Token("STRING", "\"" \o ct.text \o "\"", line0, 0),
                      lineEnd |-> lineEnd]
        ELSE
            LET tt == IF HasPrefix(ct.text, "{") THEN "LBRACE"
                      ELSE IF HasPrefix(ct.text, "}") THEN "RBRACE" ELSE "IDENT"
                idx == IndexFrom(s, searchFrom, ct.text)
            IN  IF idx >= 0
                THEN [tok |-> Token(tt, ct.text, line0, searchFrom + idx - lineStart),
                      lineEnd |-> put(searchFrom + idx + Len(ct.text))]
                ELSE [tok |-> Token(tt, ct.text, line0, 0), lineEnd |-> lineEnd]

\* one iteration of addColumns' loop: the token for ct and the new lineEnd map
AddColumn(s, lineStarts, lineEnd, ct) ==
    LET line0 == ct.line - 1
        lineStart == IF line0 < Len(lineStarts) THEN lineStarts[line0 + 1] ELSE 0
        searchFrom == IF line0 \in DOMAIN lineEnd /\ lineEnd[line0] > lineStart
                      THEN lineEnd[line0] ELSE lineStart
        put(end) == [l \in DOMAIN lineEnd \cup {line0} |-> IF l = line0 THEN end ELSE lineEnd[l]]
    IN  IF ct.quoted THEN
            LET qpos == QuotePos(s, searchFrom)
            IN  IF qpos >= 0 THEN
                    LET end == IF ByteAt(s, qpos) = "<" THEN LineEndFrom(s, qpos)
                               ELSE QuoteEndFrom(s, qpos + 1, ByteAt(s, qpos))
                    IN  [tok |-> Token("STRING", Slice(s, qpos, end), line0, qpos - lineStart),
                         lineEnd |-> put(end)]
                ELSE [tok |-> Token("STRING", "\"" \o ct.text \o "\"", line0, 0),
                      lineEnd |-> lineEnd]
        ELSE
            LET tt == IF ct.text = "{" THEN "LBRACE"
                      ELSE IF ct.text = "}" THEN "RBRACE" ELSE "IDENT"
                idx == IndexFrom(s, searchFrom, ct.text)
            IN  IF idx >= 0
                THEN [tok |-> Token(tt, ct.text, line0, searchFrom + idx - lineStart),
                      lineEnd |-> put(searchFrom + idx + Len(ct.text))]
                ELSE [tok |-> Token(tt, ct.text, line0, 0), lineEnd |-> lineEnd]

\* addColumns: caddy tokens to positioned tokens, then one EOF token
addColumns(s, caddyTokens) ==
    LET lineStarts == BuildLineStarts(s)
        RECURSIVE Go(_, _, _)
        Go(k, lineEnd, result) ==
            IF k > Len(caddyTokens) THEN Append(result, EOFToken)
            ELSE IF caddyTokens[k].line <= 0 THEN Go(k + 1, lineEnd, result)
            ELSE LET r == AddColumn(s, lineStarts, lineEnd, caddyTokens[k])
                 IN  Go(k + 1, r.lineEnd, Append(result, r.tok))
    IN  Go(1, <<>>, <<>>)

\* Tokenize with a tokenizer error answered by nil instead of the EOF token
Tokenize_NilOnError(s) ==
    LET r == CaddyTokenize(s)
    IN  IF r.err THEN <<>> ELSE addColumns(s, r.tokens)

\* Tokenize: "Return just an EOF so the parser can report errors gracefully."
Tokenize(s) ==
    LET r == CaddyTokenize(s)
    IN  IF r.err THEN <<EOFToken>> ELSE addColumns(s, r.tokens)

(***************************************************************************)
(* The parser (parser.go).  The model's pos is the code's p.pos + 1.  The  *)
(* code's p.errors is threaded through the operators as errs.              *)
(*                                                                         *)
(* Ghost fields, which the code does not keep: opened (the block's "{" was *)
(* consumed) and closed (its "}" was consumed).  Only formulas read them.  *)
(***************************************************************************)
Msg(format, args) == [format |-> format, args |-> args]

ParseError(message, rng) == [message |-> message, rng |-> rng]

\* the position peek leaves p.pos at: COMMENT and NEWLINE tokens are skipped
RECURSIVE SkipPos(_, _)
SkipPos(toks, p) ==
    IF p <= Len(toks) /\ toks[p].type \in {"COMMENT", "NEWLINE"} THEN SkipPos(toks, p + 1) ELSE p

peek(toks, p) ==
    LET q == SkipPos(toks, p) IN IF q <= Len(toks) THEN toks[q] ELSE EOFToken

\* p.pos after next(): EOF is never consumed
next(toks, p) ==
    LET q == SkipPos(toks, p) IN IF peek(toks, p).type # "EOF" THEN q + 1 ELSE q

RECURSIVE CollectArgs(_, _, _, _)
RECURSIVE CollectArgs_AnyLine(_, _, _, _)

\* argument collection that goes on past the end of the name's line
CollectArgs_AnyLine(toks, p, nameLine, args) ==
    LET tok == peek(toks, p)
    IN  IF tok.type \in {"EOF", "LBRACE", "RBRACE"}
        THEN [args |-> args, pos |-> p]
        ELSE CollectArgs_AnyLine(toks, next(toks, p), nameLine, Append(args, tok))

\* parseDirective, "Collect arguments on the same line"
CollectArgs(toks, p, nameLine, args) ==
    LET tok == peek(toks, p)
    IN  IF tok.type \in {"EOF", "LBRACE", "RBRACE"} \/ tok.line # nameLine
        THEN [args |-> args, pos |-> p]
        ELSE CollectArgs(toks, next(toks, p), nameLine, Append(args, tok))

RECURSIVE parseDirective(_, _, _)
RECURSIVE DirectiveBody(_, _, _, _)

\* parseDirective, "Optional body block": the loop after "{" was consumed
DirectiveBody(toks, p, errs, d) ==
    LET tok == peek(toks, p)
    IN  IF tok.type = "EOF" THEN
            [ok |-> TRUE, node |-> d, pos |-> p,
             errors |-> Append(errs, ParseError(Msg("unclosed block for directive %q",
                                                    <<d.name.value>>), TokenRange(tok)))]
        ELSE IF tok.type = "RBRACE" THEN
            [ok |-> TRUE, node |-> [d EXCEPT !.endLine = tok.line, !.closed = TRUE],
             pos |-> next(toks, p), errors |-> errs]
        ELSE
            LET sub == parseDirective(toks, p, errs)
            IN  DirectiveBody(toks, sub.pos, sub.errors,
                              IF sub.ok THEN [d EXCEPT !.body = Append(@, sub.node)] ELSE d)

\* parseDirective: ok is FALSE for the code's nil result
parseDirective(toks, p, errs) ==
    LET tok == peek(toks, p)
    IN  IF tok.type \notin {"IDENT", "STRING"} THEN
            [ok |-> FALSE, node |-> <<>>, pos |-> next(toks, p),
             errors |-> Append(errs, ParseError(Msg("expected directive name, got %s",
                                                    <<tok.type>>), TokenRange(tok)))]
        ELSE
            LET a == CollectArgs(toks, next(toks, p), tok.line, <<>>)
                d == [name |-> tok, args |-> a.args, body |-> <<>>,
                      startLine |-> tok.line, endLine |-> tok.line,
                      opened |-> FALSE, closed |-> FALSE]
            IN  IF peek(toks, a.pos).type = "LBRACE"
                THEN DirectiveBody(toks, next(toks, a.pos), errs, [d EXCEPT !.opened = TRUE])
                ELSE [ok |-> TRUE, node |-> d, pos |-> a.pos, errors |-> errs]

\* parseGlobalBlock: the loop after "{" was consumed
RECURSIVE GlobalBody(_, _, _, _)
GlobalBody(toks, p, errs, g) ==
    LET tok == peek(toks, p)
    IN  IF tok.type = "EOF" THEN
            [node |-> g, pos |-> p,
             errors |-> Append(errs, ParseError(Msg("unclosed global options block", <<>>),
                                                TokenRange(tok)))]
        ELSE IF tok.type = "RBRACE" THEN
            [node |-> [g EXCEPT !.endLine = tok.line, !.closed = TRUE],
             pos |-> next(toks, p), errors |-> errs]
        ELSE
            LET d == parseDirective(toks, p, errs)
            IN  GlobalBody(toks, d.pos, d.errors,
                           IF d.ok THEN [g EXCEPT !.directives = Append(@, d.node)] ELSE g)

parseGlobalBlock(toks, p, errs) ==
    LET lbrace == peek(toks, p)
    IN  GlobalBody(toks, next(toks, p), errs,
                   [directives |-> <<>>, startLine |-> lbrace.line, endLine |-> 0,
                    opened |-> TRUE, closed |-> FALSE])

\* parseSiteBlock, "Collect address tokens until { or EOF"; stray is the early
\* "return nil" at a "}"
RECURSIVE SiteAddresses(_, _, _, _)
SiteAddresses(toks, p, errs, sb) ==
    LET tok == peek(toks, p)
    IN  IF tok.type = "EOF" \/ tok.type = "LBRACE" THEN
            [stray |-> FALSE, node |-> sb, pos |-> p, errors |-> errs]
        ELSE IF tok.type = "RBRACE" THEN
            [stray |-> TRUE, node |-> sb, pos |-> next(toks, p),
             errors |-> Append(errs, ParseError(Msg("unexpected '}'", <<>>), TokenRange(tok)))]
        ELSE SiteAddresses(toks, next(toks, p), errs,
                           [sb EXCEPT !.startLine = IF Len(sb.addresses) = 0 THEN tok.line ELSE @,
                                      !.addresses = Append(@, tok)])

\* parseSiteBlock: the loop after "{" was consumed
RECURSIVE SiteBody(_, _, _, _)
SiteBody(toks, p, errs, sb) ==
    LET tok == peek(toks, p)
    IN  IF tok.type = "EOF" THEN
            [ok |-> TRUE, node |-> sb, pos |-> p,
             errors |-> Append(errs, ParseError(Msg("unclosed site block for %q",
                                                    <<sb.addresses[1].value>>), TokenRange(tok)))]
        ELSE IF tok.type = "RBRACE" THEN
            [ok |-> TRUE, node |-> [sb EXCEPT !.endLine = tok.line, !.closed = TRUE],
             pos |-> next(toks, p), errors |-> errs]
        ELSE
            LET d == parseDirective(toks, p, errs)
            IN  SiteBody(toks, d.pos, d.errors,
                         IF d.ok THEN [sb EXCEPT !.directives = Append(@, d.node)] ELSE sb)

\* parseSiteBlock: ok is FALSE for the code's nil result
parseSiteBlock(toks, p, errs) ==
    LET a == SiteAddresses(toks, p, errs,
                           [addresses |-> <<>>, directives |-> <<>>, startLine |-> 0,
                            endLine |-> 0, opened |-> FALSE, closed |-> FALSE])
    IN  IF a.stray THEN [ok |-> FALSE, node |-> <<>>, pos |-> a.pos, errors |-> a.errors]
        ELSE IF Len(a.node.addresses) = 0 THEN
            [ok |-> FALSE, node |-> <<>>, pos |-> a.pos, errors |-> a.errors]
        ELSE IF peek(toks, a.pos).type # "LBRACE" THEN
            [ok |-> TRUE, node |-> a.node, pos |-> a.pos,
             errors |-> Append(a.errors,
                               ParseError(Msg("expected '{' after site address(es)", <<>>),
                                          TokenRange(peek(toks, a.pos))))]
        ELSE SiteBody(toks, next(toks, a.pos), a.errors, [a.node EXCEPT !.opened = TRUE])

\* File{}: globalBlock is <<>> for nil, <<g>> otherwise
EmptyFile == [globalBlock |-> <<>>, siteBlocks |-> <<>>]

(***************************************************************************)
(* The schema tables (analyzer.go).                                        *)
(***************************************************************************)
containerDirectives ==
    {
     "handle", "handle_errors", "handle_path", "route"
    }

KnownTopLevel ==
    {
     "abort", "error", "handle", "handle_errors", "handle_path", "invoke", "map",
     "method", "redir", "request_body", "respond", "rewrite", "route", "try_files",
     "uri", "vars", "forward_auth", "php_fastcgi", "reverse_proxy", "file_server",
     "push", "root", "acme_server", "tls", "header", "request_header", "encode",
     "templates", "basicauth", "log", "log_append", "log_skip", "log_name",
     "intercept", "metrics", "tracing", "bind", "import", "local_certs"
    }

KnownGlobalOptions ==
    {
     "debug", "http_port", "https_port", "default_bind", "grace_period",
     "shutdown_delay", "admin", "on_demand_tls", "storage", "acme_ca", "acme_ca_root",
     "acme_dns", "acme_eab", "cert_issuer", "skip_install_trust", "email",
     "ocsp_stapling", "ocsp_interval", "preferred_chains", "key_type", "auto_https",
     "metrics", "tracing", "servers", "log", "order", "local_certs", "persist_config",
     "pki", "import"
    }

\* knownSubDirectiveParent, grouped by parent: knownSubDirectiveParent[parent] is the set of names
\* the map sends to parent
knownSubDirectiveParent ==
    [reverse_proxy |->
        {
         "to", "transport", "header_up", "header_down", "lb_policy", "lb_retries",
         "lb_try_duration", "lb_try_interval", "health_uri", "health_port",
         "health_interval", "health_timeout", "health_status", "health_body",
         "max_fails", "unhealthy_status", "unhealthy_latency", "flush_interval",
         "buffer_requests", "buffer_responses", "max_buffer_size", "trusted_proxies",
         "handle_response", "replace_status"
        },
     tls |->
        {
         "protocols", "ciphers", "curves", "alpn", "load", "ca", "ca_root", "key_type",
         "dns", "resolvers", "eab", "on_demand", "client_auth", "get_certificate"
        },
     encode |->
        {
         "gzip", "zstd", "br"
        },
     log |->
        {
         "output", "format", "level"
        }]

\* knownSubDirectives: a nil map value (a freeform body) is [nil |-> TRUE, names |-> {}]
knownSubDirectives ==
    [reverse_proxy |-> [nil |-> FALSE, names |->
        {
         "to", "dynamic", "transport", "header_up", "header_down", "lb_policy",
         "lb_retries", "lb_try_duration", "lb_try_interval", "lb_retry_match",
         "health_uri", "health_port", "health_interval", "health_timeout",
         "health_status", "health_body", "health_passes", "health_fails",
         "health_headers", "health_request_body", "max_fails", "fail_duration",
         "unhealthy_status", "unhealthy_latency", "unhealthy_request_count",
         "flush_interval", "trusted_proxies", "request_buffers", "response_buffers",
         "stream_timeout", "stream_close_delay", "buffer_requests", "buffer_responses",
         "max_buffer_size", "handle_response", "replace_status", "copy_response",
         "copy_response_headers"
        }],
     tls |-> [nil |-> FALSE, names |->
        {
         "protocols", "ciphers", "curves", "alpn", "load", "ca", "ca_root", "key_type",
         "dns", "propagation_delay", "propagation_timeout", "resolvers",
         "dns_challenge_override_domain", "eab", "on_demand", "client_auth", "issuer",
         "get_certificate", "insecure_secrets_log", "reuse_private_keys"
        }],
     encode |-> [nil |-> FALSE, names |->
        {
         "gzip", "zstd", "br", "minimum_length", "match"
        }],
     log |-> [nil |-> FALSE, names |->
        {
         "hostnames", "output", "format", "level", "include", "exclude", "sampling"
        }],
     file_server |-> [nil |-> FALSE, names |->
        {
         "fs", "root", "hide", "index", "browse", "precompressed", "status",
         "disable_canonical_uris", "pass_thru"
        }],
     php_fastcgi |-> [nil |-> FALSE, names |->
        {
         "root", "split", "env", "resolve_root_symlink", "dial_timeout",
         "read_timeout", "write_timeout", "capture_stderr", "index", "try_files"
        }],
     request_body |-> [nil |-> FALSE, names |->
        {
         "max_size"
        }],
     forward_auth |-> [nil |-> FALSE, names |->
        {
         "uri", "copy_headers", "header_up", "header_down", "trust_forward_header"
        }],
     acme_server |-> [nil |-> FALSE, names |->
        {
         "ca", "lifetime", "resolvers", "challenges"
        }],
     templates |-> [nil |-> FALSE, names |->
        {
         "mime_type", "delimiters", "root", "extensions"
        }],
     tracing |-> [nil |-> FALSE, names |->
        {
         "span"
        }],
     basicauth |-> [nil |-> TRUE, names |-> {}],
     header |-> [nil |-> TRUE, names |-> {}],
     request_header |-> [nil |-> TRUE, names |-> {}],
     map |-> [nil |-> TRUE, names |-> {}]]

\* knownSubSubDirectives: the key "sub:arg" is the pair <<sub, arg>> joined by ":"
knownSubSubDirectives ==
    ("transport:http" :>
        {
         "read_buffer", "write_buffer", "max_response_header", "proxy_protocol",
         "network_proxy", "dial_timeout", "dial_fallback_delay",
         "response_header_timeout", "expect_continue_timeout", "read_timeout",
         "write_timeout", "resolvers", "tls", "tls_client_auth",
         "tls_insecure_skip_verify", "tls_curves", "tls_timeout", "tls_trust_pool",
         "tls_server_name", "tls_renegotiation", "tls_except_ports", "keepalive",
         "keepalive_interval", "keepalive_idle_conns", "keepalive_idle_conns_per_host",
         "versions", "compression", "max_conns_per_host"
        })
    @@ ("transport:fastcgi" :>
        {
         "root", "split", "env", "resolve_root_symlink", "dial_timeout",
         "read_timeout", "write_timeout", "capture_stderr"
        })

\* knownSubDirectives[parentName], as SubDirectivesFor returns it
SubDirectivesFor(parentName) ==
    IF parentName \in DOMAIN knownSubDirectives
    THEN [ok |-> TRUE, nil |-> knownSubDirectives[parentName].nil,
          names |-> knownSubDirectives[parentName].names]
    ELSE [ok |-> FALSE, nil |-> TRUE, names |-> {}]

\* "parent, ok := knownSubDirectiveParent[name]"
HasPlacementHint(name) == \E parent \in DOMAIN knownSubDirectiveParent : name \in knownSubDirectiveParent[parent]

PlacementParent(name) == CHOOSE parent \in DOMAIN knownSubDirectiveParent : name \in knownSubDirectiveParent[parent]

(***************************************************************************)
(* sort.Strings: the byte-wise order of Go strings.                        *)
(***************************************************************************)
AsciiTable == " !\"#$%&'()*+,-./0123456789:;<=>?@ABCDEFGHIJKLMNOPQRSTUVWXYZ[\\]^_abcdefghijklmnopqrstuvwxyz{|}~"

\* the rank of a byte in byte order (control bytes before the printable ones)
ByteRank(b) ==
    IF b = "\t" THEN 0 ELSE IF b = "\n" THEN 1 ELSE IF b = "\r" THEN 2
    ELSE 2 + CHOOSE k \in 1..Len(AsciiTable) : SubSeq(AsciiTable, k, k) = b

RECURSIVE StrLess(_, _)
StrLess(a, b) ==
    IF b = "" THEN FALSE
    ELSE IF a = "" THEN TRUE
    ELSE IF ByteAt(a, 0) = ByteAt(b, 0) THEN StrLess(Slice(a, 1, Len(a)), Slice(b, 1, Len(b)))
    ELSE ByteRank(ByteAt(a, 0)) < ByteRank(ByteAt(b, 0))

RECURSIVE SortedInsert(_, _)
SortedInsert(sorted, x) ==
    IF sorted = <<>> THEN <<x>>
    ELSE IF StrLess(x, Head(sorted)) THEN <<x>> \o sorted
    ELSE <<Head(sorted)>> \o SortedInsert(Tail(sorted), x)

RECURSIVE SortStrings(_)
SortStrings(names) ==
    IF names = <<>> THEN <<>> ELSE SortedInsert(SortStrings(Tail(names)), Head(names))

(***************************************************************************)
(* The analyzer (analyzer.go, placeholders.go).  The analyzer struct's     *)
(* snippets map is passed as the set sn of its keys.                       *)
(***************************************************************************)
Diagnostic(rng, severity, message) ==
    [range |-> rng, severity |-> severity, source |-> "caddy-ls", message |-> message]

parseSnippetName(addr) ==
    IF HasPrefix(addr, "(") /\ HasSuffix(addr, ")") /\ Len(addr) > 2
    THEN [ok |-> TRUE, name |-> Slice(addr, 1, Len(addr) - 1)]
    ELSE [ok |-> FALSE, name |-> ""]

CollectSnippetNames(f) ==
    LET RECURSIVE Go(_)
        Go(k) ==
            IF k > Len(f.siteBlocks) THEN <<>>
            ELSE LET sb == f.siteBlocks[k]
                     r == parseSnippetName(sb.addresses[1].value)
                 IN  IF Len(sb.addresses) = 0 THEN Go(k + 1)
                     ELSE IF r.ok THEN <<r.name>> \o Go(k + 1)
                     ELSE Go(k + 1)
    IN  SortStrings(Go(1))

collectSnippets(f) ==
    LET names == CollectSnippetNames(f) IN {names[k] : k \in 1..Len(names)}

isFileImport(arg) ==
    Contains(arg, "/") \/ Contains(arg, "*") \/ Contains(arg, "\\") \/ HasPrefix(arg, ".")

isCaddyPlaceholder(arg) == HasPrefix(arg, "{") /\ HasSuffix(arg, "}")

isSnippet(sb) == Len(sb.addresses) > 0 /\ HasPrefix(sb.addresses[1].value, "(")

\* analyzeImport reporting at the "import" name token instead of the argument
analyzeImport_AtName(sn, d) ==
    IF Len(d.args) = 0 THEN <<>>
    ELSE LET arg == d.args[1].value
         IN  IF isFileImport(arg) \/ isCaddyPlaceholder(arg) THEN <<>>
             ELSE IF arg \notin sn
             THEN <<Diagnostic(TokenRange(d.name), "Warning", Msg("undefined snippet %q", <<arg>>))>>
             ELSE <<>>

analyzeImport(sn, d) ==
    IF Len(d.args) = 0 THEN <<>>
    ELSE LET arg == d.args[1].value
         IN  IF isFileImport(arg) \/ isCaddyPlaceholder(arg) THEN <<>>
             ELSE IF arg \notin sn
             THEN <<Diagnostic(TokenRange(d.args[1]), "Warning", Msg("undefined snippet %q", <<arg>>))>>
             ELSE <<>>

analyzeGlobalDirective(sn, d) ==
    LET name == d.name.value
    IN  IF HasPrefix(name, "@") THEN <<>>
        ELSE IF name \notin KnownGlobalOptions
        THEN <<Diagnostic(TokenRange(d.name), "Warning", Msg("unknown global option %q", <<name>>))>>
        ELSE IF name = "import" THEN analyzeImport(sn, d)
        ELSE <<>>

\* analyzeNestedBody naming the parent without its first argument
analyzeNestedBody_UnqualifiedParent(sn, validDirs, parent, grandparentName) ==
    LET qualifiedParent == parent.name.value
        RECURSIVE Go(_)
        Go(k) ==
            IF k > Len(parent.body) THEN <<>>
            ELSE LET sub == parent.body[k]
                     subName == sub.name.value
                 IN  IF HasPrefix(subName, "@") THEN Go(k + 1)
                     ELSE IF subName = "import" THEN analyzeImport(sn, sub) \o Go(k + 1)
                     ELSE IF subName \notin validDirs
                     THEN <<Diagnostic(TokenRange(sub.name), "Warning",
                                       Msg("unknown subdirective %q for %q %q",
                                           <<subName, grandparentName, qualifiedParent>>))>>
                          \o Go(k + 1)
                     ELSE Go(k + 1)
    IN  Go(1)

\* analyzeNestedBody: the body of a subdirective against a known set of names
analyzeNestedBody(sn, validDirs, parent, grandparentName) ==
    LET qualifiedParent == IF Len(parent.args) > 0
                           THEN parent.name.value \o " " \o parent.args[1].value
                           ELSE parent.name.value
        RECURSIVE Go(_)
        Go(k) ==
            IF k > Len(parent.body) THEN <<>>
            ELSE LET sub == parent.body[k]
                     subName == sub.name.value
                 IN  IF HasPrefix(subName, "@") THEN Go(k + 1)
                     ELSE IF subName = "import" THEN analyzeImport(sn, sub) \o Go(k + 1)
                     ELSE IF subName \notin validDirs
                     THEN <<Diagnostic(TokenRange(sub.name), "Warning",
                                       Msg("unknown subdirective %q for %q %q",
                                           <<subName, grandparentName, qualifiedParent>>))>>
                          \o Go(k + 1)
                     ELSE Go(k + 1)
    IN  Go(1)

RECURSIVE analyzeSiteDirective(_, _, _)
RECURSIVE analyzeDirectiveBody(_, _, _, _)

\* analyzeDirectiveBody whose container branch forgets that it is inside a snippet
analyzeDirectiveBody_ContainerDropsSnippet(sn, parentName, body, inSnippet) ==
    IF Len(body) = 0 THEN <<>>
    ELSE IF parentName \in containerDirectives THEN
        LET RECURSIVE Each(_)
            Each(k) == IF k > Len(body) THEN <<>>
                       ELSE analyzeSiteDirective(sn, body[k], FALSE) \o Each(k + 1)
        IN  Each(1)
    ELSE IF ~SubDirectivesFor(parentName).ok \/ SubDirectivesFor(parentName).nil THEN <<>>
    ELSE
        LET subDirs == SubDirectivesFor(parentName).names
            RECURSIVE Go(_)
            Go(k) ==
                IF k > Len(body) THEN <<>>
                ELSE LET sub == body[k]
                         subName == sub.name.value
                         subKey == IF Len(sub.args) > 0
                                   THEN subName \o ":" \o sub.args[1].value ELSE subName
                     IN  IF HasPrefix(subName, "@") THEN Go(k + 1)
                         ELSE IF subName = "import" THEN analyzeImport(sn, sub) \o Go(k + 1)
                         ELSE IF subName \notin subDirs
                         THEN <<Diagnostic(TokenRange(sub.name), "Warning",
                                           Msg("unknown subdirective %q for %q",
                                               <<subName, parentName>>))>> \o Go(k + 1)
                         ELSE IF Len(sub.body) > 0 /\ subKey \in DOMAIN knownSubSubDirectives
                         THEN analyzeNestedBody(sn, knownSubSubDirectives[subKey], sub, parentName)
                              \o Go(k + 1)
                         ELSE Go(k + 1)
        IN  Go(1)

\* analyzeDirectiveBody looking the subdirective up in KnownTopLevel, the wrong table
analyzeDirectiveBody_TopLevelTable(sn, parentName, body, inSnippet) ==
    IF Len(body) = 0 THEN <<>>
    ELSE IF parentName \in containerDirectives THEN
        LET RECURSIVE Each(_)
            Each(k) == IF k > Len(body) THEN <<>>
                       ELSE analyzeSiteDirective(sn, body[k], inSnippet) \o Each(k + 1)
        IN  Each(1)
    ELSE IF ~SubDirectivesFor(parentName).ok \/ SubDirectivesFor(parentName).nil THEN <<>>
    ELSE
        LET RECURSIVE Go(_)
            Go(k) ==
                IF k > Len(body) THEN <<>>
                ELSE LET sub == body[k]
                         subName == sub.name.value
                         subKey == IF Len(sub.args) > 0
                                   THEN subName \o ":" \o sub.args[1].value ELSE subName
                     IN  IF HasPrefix(subName, "@") THEN Go(k + 1)
                         ELSE IF subName = "import" THEN analyzeImport(sn, sub) \o Go(k + 1)
                         ELSE IF subName \notin KnownTopLevel
                         THEN <<Diagnostic(TokenRange(sub.name), "Warning",
                                           Msg("unknown subdirective %q for %q",
                                               <<subName, parentName>>))>> \o Go(k + 1)
                         ELSE IF Len(sub.body) > 0 /\ subKey \in DOMAIN knownSubSubDirectives
                         THEN analyzeNestedBody(sn, knownSubSubDirectives[subKey], sub, parentName)
                              \o Go(k + 1)
                         ELSE Go(k + 1)
        IN  Go(1)

analyzeDirectiveBody(sn, parentName, body, inSnippet) ==
    IF Len(body) = 0 THEN <<>>
    ELSE IF parentName \in containerDirectives THEN
        LET RECURSIVE Each(_)
            Each(k) == IF k > Len(body) THEN <<>>
                       ELSE analyzeSiteDirective(sn, body[k], inSnippet) \o Each(k + 1)
        IN  Each(1)
    ELSE IF ~SubDirectivesFor(parentName).ok \/ SubDirectivesFor(parentName).nil THEN <<>>
    ELSE
        LET subDirs == SubDirectivesFor(parentName).names
            RECURSIVE Go(_)
            Go(k) ==
                IF k > Len(body) THEN <<>>
                ELSE LET sub == body[k]
                         subName == sub.name.value
                         subKey == IF Len(sub.args) > 0
                                   THEN subName \o ":" \o sub.args[1].value ELSE subName
                     IN  IF HasPrefix(subName, "@") THEN Go(k + 1)
                         ELSE IF subName = "import" THEN analyzeImport(sn, sub) \o Go(k + 1)
                         ELSE IF subName \notin subDirs
                         THEN <<Diagnostic(TokenRange(sub.name), "Warning",
                                           Msg("unknown subdirective %q for %q",
                                               <<subName, parentName>>))>> \o Go(k + 1)
                         ELSE IF Len(sub.body) > 0 /\ subKey \in DOMAIN knownSubSubDirectives
                         THEN analyzeNestedBody(sn, knownSubSubDirectives[subKey], sub, parentName)
                              \o Go(k + 1)
                         ELSE Go(k + 1)
        IN  Go(1)

\* analyzeSiteDirective that gives the placement hint inside snippets too
analyzeSiteDirective_HintInSnippet(sn, d, inSnippet) ==
    LET name == d.name.value
    IN  IF HasPrefix(name, "@") THEN <<>>
        ELSE IF name \notin KnownTopLevel THEN
            <<Diagnostic(TokenRange(d.name), "Warning",
                              IF HasPlacementHint(name)
                              THEN Msg("%q must appear inside a %q block, not at the site level",
                                       <<name, PlacementParent(name)>>)
                              ELSE Msg("unknown directive %q", <<name>>))>>
        ELSE IF name = "import" THEN analyzeImport(sn, d)
        ELSE analyzeDirectiveBody(sn, name, d.body, inSnippet)

\* analyzeSiteDirective: a directive at site-block (or snippet) level
analyzeSiteDirective(sn, d, inSnippet) ==
    LET name == d.name.value
    IN  IF HasPrefix(name, "@") THEN <<>>
        ELSE IF name \notin KnownTopLevel THEN
            IF inSnippet /\ HasPlacementHint(name) THEN <<>>
            ELSE <<Diagnostic(TokenRange(d.name), "Warning",
                              IF HasPlacementHint(name)
                              THEN Msg("%q must appear inside a %q block, not at the site level",
                                       <<name, PlacementParent(name)>>)
                              ELSE Msg("unknown directive %q", <<name>>))>>
        ELSE IF name = "import" THEN analyzeImport(sn, d)
        ELSE analyzeDirectiveBody(sn, name, d.body, inSnippet)

\* checkPlaceholderBalance without the skip of the escapes "\{" and "\}"
checkPlaceholderBalance_NoEscape(s) ==
    LET RECURSIVE Go(_, _)
        Go(i, depth) ==
            IF i >= Len(s) THEN
                IF depth > 0 THEN "unclosed placeholder: '{' without matching '}'" ELSE ""
            ELSE IF ByteAt(s, i) = "{" THEN Go(i + 1, depth + 1)
            ELSE IF ByteAt(s, i) = "}" THEN
                IF depth = 0 THEN "unmatched '}': no opening '{' for this placeholder"
                ELSE Go(i + 1, depth - 1)
            ELSE Go(i + 1, depth)
    IN  Go(0, 0)

\* checkPlaceholderBalance: "" when balanced.  The code scans runes; "{", "}" and
\* "\" are one byte each, so a scan of the bytes of valid UTF-8 sees the same.
checkPlaceholderBalance(s) ==
    LET RECURSIVE Go(_, _)
        Go(i, depth) ==
            IF i >= Len(s) THEN
                IF depth > 0 THEN "unclosed placeholder: '{' without matching '}'" ELSE ""
            ELSE IF ByteAt(s, i) = "\\" /\ i + 1 < Len(s) /\ ByteAt(s, i + 1) \in {"{", "}"}
            THEN Go(i + 2, depth)
            ELSE IF ByteAt(s, i) = "{" THEN Go(i + 1, depth + 1)
            ELSE IF ByteAt(s, i) = "}" THEN
                IF depth = 0 THEN "unmatched '}': no opening '{' for this placeholder"
                ELSE Go(i + 1, depth - 1)
            ELSE Go(i + 1, depth)
    IN  Go(0, 0)

\* placeholderDiag: <<>> for the code's nil
placeholderDiag(tok) ==
    IF tok.type = "LBRACE" \/ tok.type = "RBRACE" THEN <<>>
    ELSE IF checkPlaceholderBalance(tok.value) = "" THEN <<>>
    ELSE <<Diagnostic(TokenRange(tok), "Error", Msg(checkPlaceholderBalance(tok.value), <<>>))>>

PlaceholderDiags(toks) ==
    LET RECURSIVE Go(_)
        Go(k) == IF k > Len(toks) THEN <<>> ELSE placeholderDiag(toks[k]) \o Go(k + 1)
    IN  Go(1)

\* analyzeDirectivePlaceholders that looks at the arguments of d only
analyzeDirectivePlaceholders_ArgsOnly(d) == PlaceholderDiags(d.args)

RECURSIVE analyzeDirectivePlaceholders(_)
analyzeDirectivePlaceholders(d) ==
    LET RECURSIVE Subs(_)
        Subs(k) == IF k > Len(d.body) THEN <<>>
                   ELSE analyzeDirectivePlaceholders(d.body[k]) \o Subs(k + 1)
    IN  PlaceholderDiags(d.args) \o Subs(1)

DirectivesPlaceholders(ds) ==
    LET RECURSIVE Go(_)
        Go(k) == IF k > Len(ds) THEN <<>> ELSE analyzeDirectivePlaceholders(ds[k]) \o Go(k + 1)
    IN  Go(1)

analyzeFilePlaceholders(f) ==
    LET RECURSIVE Sites(_)
        Sites(k) ==
            IF k > Len(f.siteBlocks) THEN <<>>
            ELSE PlaceholderDiags(f.siteBlocks[k].addresses)
                 \o DirectivesPlaceholders(f.siteBlocks[k].directives) \o Sites(k + 1)
    IN  (IF f.globalBlock # <<>> THEN DirectivesPlaceholders(f.globalBlock[1].directives) ELSE <<>>)
        \o Sites(1)

Analyze(f) ==
    LET sn == collectSnippets(f)
        RECURSIVE Globals(_)
        Globals(k) ==
            IF f.globalBlock = <<>> \/ k > Len(f.globalBlock[1].directives) THEN <<>>
            ELSE analyzeGlobalDirective(sn, f.globalBlock[1].directives[k]) \o Globals(k + 1)
        SiteDirs(sb, inSnippet) ==
            LET RECURSIVE Go(_)
                Go(k) == IF k > Len(sb.directives) THEN <<>>
                         ELSE analyzeSiteDirective(sn, sb.directives[k], inSnippet) \o Go(k + 1)
            IN  Go(1)
        RECURSIVE Sites(_)
        Sites(k) ==
            IF k > Len(f.siteBlocks) THEN <<>>
            ELSE SiteDirs(f.siteBlocks[k], isSnippet(f.siteBlocks[k])) \o Sites(k + 1)
    IN  Globals(1) \o Sites(1) \o analyzeFilePlaceholders(f)

(***************************************************************************)
(* Completion (completion.go): the names offered at a cursor line.  A Go   *)
(* nil slice is [nil |-> TRUE, names |-> <<>>].                            *)
(***************************************************************************)
\* "for name := range m { names = append(names, name) }; sort.Strings(names)":
\* the map's iteration order is arbitrary and the sort makes the result unique
RECURSIVE SortedKeys(_)
SortedKeys(S) ==
    IF S = {} THEN <<>>
    ELSE LET least == CHOOSE x \in S : \A y \in S \ {x} : StrLess(x, y)
         IN  <<least>> \o SortedKeys(S \ {least})

topLevelDirectives == SortedKeys(KnownTopLevel)

\* directiveNamesAt's "names", computed once for each directive with a set
sortedSubDirectives ==
    [parent \in {p \in DOMAIN knownSubDirectives : ~knownSubDirectives[p].nil} |->
        SortedKeys(knownSubDirectives[parent].names)]

hasBody(d) == d.endLine > d.startLine

NilNames == [nil |-> TRUE, names |-> <<>>]

Names(list) == [nil |-> FALSE, names |-> list]

\* directiveNamesAt offering the site-level names inside a container without
\* looking into the container's body
directiveNamesAt_NoRecursion(directives, cursorLine) ==
    LET inside == {k \in 1..Len(directives) :
                      /\ hasBody(directives[k])
                      /\ cursorLine > directives[k].startLine
                      /\ cursorLine < directives[k].endLine}
    IN  IF inside = {} THEN Names(topLevelDirectives)
        ELSE LET d == directives[CHOOSE k \in inside : \A j \in inside : k <= j]
                 sub == SubDirectivesFor(d.name.value)
             IN  IF d.name.value \in containerDirectives
                 THEN Names(topLevelDirectives)
                 ELSE IF ~sub.ok \/ sub.nil THEN NilNames
                 ELSE Names(sortedSubDirectives[d.name.value])

RECURSIVE directiveNamesAt(_, _)
directiveNamesAt(directives, cursorLine) ==
    LET inside == {k \in 1..Len(directives) :
                      /\ hasBody(directives[k])
                      /\ cursorLine > directives[k].startLine
                      /\ cursorLine < directives[k].endLine}
    IN  IF inside = {} THEN Names(topLevelDirectives)
        ELSE LET d == directives[CHOOSE k \in inside : \A j \in inside : k <= j]
                 sub == SubDirectivesFor(d.name.value)
             IN  IF d.name.value \in containerDirectives
                 THEN directiveNamesAt(d.body, cursorLine)
                 ELSE IF ~sub.ok \/ sub.nil THEN NilNames
                 ELSE Names(sortedSubDirectives[d.name.value])

completionNamesAt(f, cursorLine) ==
    LET inside == {k \in 1..Len(f.siteBlocks) :
                      /\ cursorLine > f.siteBlocks[k].startLine
                      /\ cursorLine < f.siteBlocks[k].endLine}
    IN  IF inside = {} THEN NilNames
        ELSE directiveNamesAt(f.siteBlocks[CHOOSE k \in inside : \A j \in inside : k <= j].directives,
                              cursorLine)

\* Handler.Analyze: the parse errors as Error diagnostics, then the analyzer's
PublishedDiagnostics(f, errs) ==
    [k \in 1..Len(errs) |-> Diagnostic(errs[k].rng, "Error", errs[k].message)] \o Analyze(f)

(***************************************************************************)
(* The state machine: one document goes through Handler.Analyze, which is  *)
(* Parse (Tokenize, then parseFile, whose loop is taken one test and one   *)
(* parseSiteBlock call at a time), then Analyze and the publication.       *)
(*   pc = "source"     Parse was called with src                           *)
(*   pc = "parseFile"  the parser was made from Tokenize(src)              *)
(*   pc = "loop"       parseFile is at the test of its for loop            *)
(*   pc = "site"       the test passed: parseSiteBlock is to be called     *)
(*   pc = "return"     parseFile returned file and errors                  *)
(*   pc = "published"  the diagnostics were sent                           *)
(*   pc = "completed"  a completion request on the document was answered   *)
(*                     (reply holds the cursor line and the names)         *)
(* Two more machines share the variables: a call of checkPlaceholderBalance*)
(* on src (pc = "balance", then "balanced", reply the message) and the     *)
(* document store (pc = "store"; store, ops and reply).                    *)
(***************************************************************************)
TokenizeStep ==
    /\ pc = "source"
    /\ tokens' = Tokenize(src)
    /\ pos' = 1
    /\ pc' = "parseFile"
    /\ UNCHANGED <<src, errors, file, diags>>
    /\ UNCHANGED <<store, ops, reply>>

\* parseFile, "Optional global block: starts with bare {"
ParseFileStart ==
    /\ pc = "parseFile"
    /\ LET g == parseGlobalBlock(tokens, pos, errors)
       IN  IF peek(tokens, pos).type = "LBRACE"
           THEN /\ file' = [file EXCEPT !.globalBlock = <<g.node>>]
                /\ pos' = g.pos
                /\ errors' = g.errors
           ELSE UNCHANGED <<file, pos, errors>>
    /\ pc' = "loop"
    /\ UNCHANGED <<src, tokens, diags>>
    /\ UNCHANGED <<store, ops, reply>>

\* parseFile, "for p.peek().Type != EOF"
ParseFileLoop ==
    /\ pc = "loop"
    /\ pc' = IF peek(tokens, pos).type # "EOF" THEN "site" ELSE "return"
    /\ UNCHANGED <<src, tokens, pos, errors, file, diags>>
    /\ UNCHANGED <<store, ops, reply>>

\* parseFile, the loop's body: "sb := p.parseSiteBlock()" and the append
ParseFileSiteBlock ==
    /\ pc = "site"
    /\ LET sb == parseSiteBlock(tokens, pos, errors)
       IN  /\ file' = IF sb.ok THEN [file EXCEPT !.siteBlocks = Append(@, sb.node)] ELSE file
           /\ pos' = sb.pos
           /\ errors' = sb.errors
    /\ pc' = "loop"
    /\ UNCHANGED <<src, tokens, diags>>
    /\ UNCHANGED <<store, ops, reply>>

\* Handler.Analyze after Parse returned: analysis.Analyze and ctx.Notify
Publish ==
    /\ pc = "return"
    /\ diags' = PublishedDiagnostics(file, errors)
    /\ pc' = "published"
    /\ UNCHANGED <<src, tokens, pos, errors, file>>
    /\ UNCHANGED <<store, ops, reply>>

Next == TokenizeStep \/ ParseFileStart \/ ParseFileLoop \/ ParseFileSiteBlock \/ Publish

InitWith(source) ==
    /\ src = source
    /\ tokens = <<>>
    /\ pos = 1
    /\ errors = <<>>
    /\ file = EmptyFile
    /\ diags = <<>>
    /\ pc = "source"
    /\ store = [u \in {} |-> ""]
    /\ ops = <<>>
    /\ reply = <<>>

\* the concatenation of a sequence of strings
RECURSIVE Join(_)
Join(parts) == IF parts = <<>> THEN "" ELSE Head(parts) \o Join(Tail(parts))

(***************************************************************************)
(* Inputs 1: every source of at most MaxSrcLen characters of SrcAlphabet   *)
(* ("Ee" is the one two-byte character).                                   *)
(***************************************************************************)
MaxSrcLen == 4

SrcAlphabet == {"a", "Ee", " ", "\n", "{", "}", "\"", "<"}

CharSources == {Join(cs) : cs \in UNION {[1..n -> SrcAlphabet] : n \in 0..MaxSrcLen}}

InitChars == \E source \in CharSources : InitWith(source)

SpecChars == InitChars /\ [][Next]_vars

(***************************************************************************)
(* Inputs 2: every source of at most MaxWords words, each an identifier,   *)
(* "{" or "}", and each on the line of the word before it or on the next   *)
(* line.                                                                   *)
(***************************************************************************)
MaxWords == 5

Words == {"a", "{", "}"}

WordSources ==
    {Join([k \in 1..Len(ws) |-> (IF k = 1 THEN (IF br[k] THEN "\n" ELSE "")
                                 ELSE (IF br[k] THEN "\n" ELSE " ")) \o ws[k]]) :
        <<ws, br>> \in UNION {[1..n -> Words] \X [1..n -> BOOLEAN] : n \in 0..MaxWords}}

InitWords == \E source \in WordSources : InitWith(source)

SpecWords == InitWords /\ [][Next]_vars

Spec == SpecWords


(***************************************************************************)
(* Inputs 3: Caddyfiles as the analyzer's tests write them: an optional    *)
(* global block, an optional snippet definition, and one site block whose  *)
(* first address is a host, "(snip)" or the unfinished "(foo", holding one *)
(* site-level directive, possibly inside "handle" blocks.                  *)
(***************************************************************************)
MaxSub == 2
MaxWrap == 1

\* the lines a directive's body is made of
SubDirectiveLines ==
    {"to x\n", "bogus\n", "@m\n", "import nosuch\n", "transport http {\nbogus\ntls\n}\n"}

\* the bodies of at most MaxSub lines
RECURSIVE BodiesOf(_)
BodiesOf(n) ==
    IF n = 0 THEN {""}
    ELSE BodiesOf(n - 1) \cup {b \o l : b \in BodiesOf(n - 1), l \in SubDirectiveLines}

\* a directive directly in the block and again inside nested containers
ContainerTexts ==
    {x \o "route {\nhandle_path {\n" \o x \o "}\n}\n" :
        x \in {"bogus\n", "to x\n", "@m\n", "encode\n"}}
    \cup {"handle_errors {\nto x\n}\n"}

\* bodies of subdirectives, with imports in bodies of every kind
NestedTexts ==
    {"reverse_proxy {\ntransport {\nbogus\n}\ntransport x {\nbogus\n}\ntransport fastcgi {\nbogus\nenv\n@m\n}\n}\n",
     "header {\nimport nosuch\n}\n",
     "bogus {\nimport nosuch\n}\n",
     "reverse_proxy {\ntransport x {\nimport nosuch\n}\n}\n",
     "reverse_proxy {\ntransport http {\nimport nosuch\ntls {\nimport nosuch\n}\n}\n}\n"}

SiteDirectiveTexts ==
    {"reverse_proxy {\n" \o b \o "}\n" : b \in BodiesOf(MaxSub)}
    \cup ContainerTexts \cup NestedTexts
    \cup {"encode {\ngzip\nto x\n}\n", "header {\nbogus\n}\n"}
    \cup {"bogus x {\nto\n}\n", "to x {\nbogus\n}\n", "to x\n"}
    \cup {"import\n", "import snip\n", "import nosuch\n", "import ./x{\n", "import {x}\n",
          "import a\\b\n", "import *\n", "import {x\n"}

RECURSIVE Wrap(_, _)
Wrap(text, n) == IF n = 0 THEN text ELSE "handle {\n" \o Wrap(text, n - 1) \o "}\n"

DocSources ==
    {header \o snippet \o address \o " {\n" \o Wrap(text, w) \o "}\n" :
        header \in {"", "{\ndebug\nimport nosuch\n}\n"},
        snippet \in {"", "(snip) {\nto x\n}\n"},
        address \in {"example.com", "(snip)", "(foo"},
        text \in SiteDirectiveTexts,
        w \in 0..MaxWrap}

InitDocs == \E source \in DocSources : InitWith(source)

SpecDocs == InitDocs /\ [][Next]_vars

(***************************************************************************)
(* What the formulas below read from a state.                              *)
(***************************************************************************)
\* parseFile has returned: file and errors are Parse's results
Returned == pc \in {"return", "published"}

\* every directive of a directive list, at any depth
RECURSIVE DirectivesUnder(_)
DirectivesUnder(ds) ==
    UNION {{ds[k]} \cup DirectivesUnder(ds[k].body) : k \in 1..Len(ds)}

SiteBlocksOf(f) == {f.siteBlocks[k] : k \in 1..Len(f.siteBlocks)}

GlobalBlocksOf(f) == {f.globalBlock[k] : k \in 1..Len(f.globalBlock)}

FileDirectives(f) ==
    UNION {DirectivesUnder(b.directives) : b \in SiteBlocksOf(f) \cup GlobalBlocksOf(f)}

\* the tokens of the input before the EOF token
InputTokens == {tokens[k] : k \in 1..(Len(tokens) - 1)}

\* the last line seen in the input
LastLine ==
    IF InputTokens = {} THEN 0
    ELSE CHOOSE l \in {t.line : t \in InputTokens} : \A t \in InputTokens : t.line <= l

\* the lines of the tokens parsed inside a block
RECURSIVE DirectiveLines(_)
DirectiveLines(d) ==
    {d.name.line} \cup {d.args[k].line : k \in 1..Len(d.args)}
    \cup UNION {DirectiveLines(d.body[k]) : k \in 1..Len(d.body)}

BodyLines(ds) == UNION {DirectiveLines(ds[k]) : k \in 1..Len(ds)}

HasError(format, args) == \E k \in 1..Len(errors) : errors[k].message = Msg(format, args)

(***************************************************************************)
(* C1.  Parse terminates: every iteration of parseFile's loop consumes at  *)
(* least one token (the loops of parseGlobalBlock, parseSiteBlock and      *)
(* parseDirective are the recursions of the operators above, which TLC     *)
(* evaluates to an end on every input).  The code breaks this: a "{" where *)
(* a site address is expected makes parseSiteBlock return nil with nothing *)
(* consumed, and parseFile calls it again for ever.                        *)
(***************************************************************************)
C1_EveryIterationConsumes == [][pc = "site" /\ pc' = "loop" => pos' > pos]_vars

(***************************************************************************)
(* C3.  For every directive of a returned File, at any depth: the          *)
(* directive was parsed with a body block iff EndLine > StartLine, and     *)
(* EndLine = StartLine otherwise.  The code breaks this for a body closed  *)
(* on the directive's own line and for a body left unclosed at EOF.        *)
(***************************************************************************)
C3_BodyIffEndLineAfterStartLine ==
    Returned =>
        \A d \in FileDirectives(file) :
            /\ d.opened <=> d.endLine > d.startLine
            /\ ~d.opened => d.endLine = d.startLine

(***************************************************************************)
(* C4.  Every block (global block, site block, directive body) still open  *)
(* at EOF is reported with an "unclosed" error and is closed with EndLine  *)
(* the last line seen in the input, so EndLine >= StartLine and EndLine >= *)
(* the line of every token parsed inside it.  The code reports the error   *)
(* but never assigns EndLine on that path.                                 *)
(***************************************************************************)
UnclosedEndsAtLastLine(b, inside) ==
    /\ b.endLine = LastLine
    /\ b.endLine >= b.startLine
    /\ \A l \in inside : b.endLine >= l

C4_UnclosedBlockClosedAtLastLine ==
    Returned =>
        /\ \A g \in GlobalBlocksOf(file) :
              g.opened /\ ~g.closed =>
                  /\ HasError("unclosed global options block", <<>>)
                  /\ UnclosedEndsAtLastLine(g, BodyLines(g.directives))
        /\ \A sb \in SiteBlocksOf(file) :
              sb.opened /\ ~sb.closed =>
                  /\ HasError("unclosed site block for %q", <<sb.addresses[1].value>>)
                  /\ UnclosedEndsAtLastLine(sb, BodyLines(sb.directives))
        /\ \A d \in FileDirectives(file) :
              d.opened /\ ~d.closed =>
                  /\ HasError("unclosed block for directive %q", <<d.name.value>>)
                  /\ UnclosedEndsAtLastLine(d, BodyLines(d.body))

(***************************************************************************)
(* C5.  An address line that is not followed by "{" yields a SiteBlock of  *)
(* its own (its addresses are the tokens of that one line) with no         *)
(* directives and EndLine = StartLine, and the missing brace is reported   *)
(* as its own error, on whatever line the address is.  The code leaves     *)
(* EndLine at 0 and gathers addresses across lines.                        *)
(***************************************************************************)
C5_BareAddressLine ==
    Returned =>
        \A sb \in SiteBlocksOf(file) :
            /\ \A k \in 1..Len(sb.addresses) : sb.addresses[k].line = sb.startLine
            /\ ~sb.opened =>
                  /\ Len(sb.directives) = 0
                  /\ sb.endLine = sb.startLine
                  /\ HasError("expected '{' after site address(es)", <<>>)

(***************************************************************************)
(* C2.  Structural problems are always surfaced: for a malformed source    *)
(* (one on which the underlying tokenizer returns an error, or whose       *)
(* braces do not balance: a stray "}" or a block left open) Parse returns  *)
(* a non-empty error list.  The code breaks this: on a tokenizer error     *)
(* Tokenize answers the EOF token alone and drops the error, so Parse      *)
(* returns an empty File and no error.                                     *)
(***************************************************************************)
BracesBalanced(toks) ==
    LET RECURSIVE Go(_, _)
        Go(k, depth) ==
            IF k > Len(toks) THEN depth = 0
            ELSE IF toks[k].type = "LBRACE" THEN Go(k + 1, depth + 1)
            ELSE IF toks[k].type = "RBRACE" THEN depth > 0 /\ Go(k + 1, depth - 1)
            ELSE Go(k + 1, depth)
    IN  Go(1, 0)

Malformed(s) == CaddyTokenize(s).err \/ ~BracesBalanced(Tokenize(s))

C2_MalformedSourceHasErrors == Returned /\ Malformed(src) => errors # <<>>

(***************************************************************************)
(* C6.  For every source, Tokenize returns a non-empty sequence whose last *)
(* element is an EOF token and which holds exactly one EOF token.          *)
(***************************************************************************)
C6_TokenizeEndsWithOneEOF ==
    pc # "source" =>
        /\ Len(tokens) >= 1
        /\ tokens[Len(tokens)].type = "EOF"
        /\ Cardinality({k \in 1..Len(tokens) : tokens[k].type = "EOF"}) = 1

\* Tokenize has answered a source on which the underlying tokenizer fails
C6_Witness == pc # "source" /\ CaddyTokenize(src).err /\ tokens = <<EOFToken>>

(***************************************************************************)
(* C7.  Every token's Char is the 0-based offset of its first character on *)
(* its line counted in characters, Token.Range is [Char, Char + number of  *)
(* characters of the token text) on that line, and the text at that place  *)
(* of that line is the token's text.  The code breaks this: addColumns and *)
(* Token.Range count bytes, so a multi-byte character before or inside a   *)
(* token shifts the column or the end.                                     *)
(***************************************************************************)
\* the byte offset of character number n of s
RECURSIVE RuneOffset(_, _)
RuneOffset(s, n) ==
    IF s = "" THEN 0
    ELSE IF n = 0 /\ ~IsContinuationByte(ByteAt(s, 0)) THEN 0
    ELSE 1 + RuneOffset(Slice(s, 1, Len(s)),
                        IF IsContinuationByte(ByteAt(s, 0)) THEN n ELSE n - 1)

\* the characters from..to-1 of s, for to <= RuneCount(s)
RuneSlice(s, from, to) ==
    Slice(s, RuneOffset(s, from), IF to >= RuneCount(s) THEN Len(s) ELSE RuneOffset(s, to))

C7_CharCountsCharacters ==
    pc # "source" =>
        \A t \in InputTokens :
            LET line == StringsSplitNL(src)[t.line + 1]
                n == RuneCount(t.value)
            IN  /\ t.char + n <= RuneCount(line)
                /\ RuneSlice(line, t.char, t.char + n) = t.value
                /\ TokenRange(t) = Range(t.line, t.char, t.line, t.char + n)

(***************************************************************************)
(* The analyzer's part of the published diagnostics (Handler.Analyze puts  *)
(* the parse errors first), and the directives the analyzer treats as      *)
(* site-level: those directly in a site block and, through the container   *)
(* directives, those in a container's body.                                *)
(***************************************************************************)
AnalyzerDiags == SubSeq(diags, Len(errors) + 1, Len(diags))

DiagsAt(rng) == {k \in 1..Len(AnalyzerDiags) : AnalyzerDiags[k].range = rng}

WarningsAt(rng) == {k \in DiagsAt(rng) : AnalyzerDiags[k].severity = "Warning"}

BodyOf(d) == {d.body[k] : k \in 1..Len(d.body)}

RECURSIVE SiteLevel(_)
SiteLevel(ds) ==
    UNION {{ds[k]} \cup (IF ds[k].name.value \in containerDirectives
                         THEN SiteLevel(ds[k].body) ELSE {}) : k \in 1..Len(ds)}

SiteLevelDirectives(f) == UNION {SiteLevel(sb.directives) : sb \in SiteBlocksOf(f)}

\* the site-level directives whose subdirective set is known and not nil
SchemaParents(f) ==
    {p \in SiteLevelDirectives(f) :
        SubDirectivesFor(p.name.value).ok /\ ~SubDirectivesFor(p.name.value).nil}

(***************************************************************************)
(* C8.  For a site-level directive P whose SubDirectivesFor(P) is a known  *)
(* non-nil set S and a directive s of its body: when s is in S the         *)
(* analyzer emits no diagnostic at s; when s is not in S, does not start   *)
(* with "@" and is not "import", it emits exactly one diagnostic at s's    *)
(* name token, a Warning whose message names s and P.                      *)
(***************************************************************************)
C8_SubDirectiveDiagnostics ==
    pc = "published" =>
        \A p \in SchemaParents(file) : \A s \in BodyOf(p) :
            LET S == SubDirectivesFor(p.name.value).names
                at == DiagsAt(TokenRange(s.name))
            IN  /\ s.name.value \in S => at = {}
                /\ (s.name.value \notin S /\ ~HasPrefix(s.name.value, "@")
                    /\ s.name.value # "import")
                   => /\ Cardinality(at) = 1
                      /\ \A k \in at :
                            /\ AnalyzerDiags[k].severity = "Warning"
                            /\ AnalyzerDiags[k].message =
                                   Msg("unknown subdirective %q for %q",
                                       <<s.name.value, p.name.value>>)

\* a reverse_proxy inside a handle block was analyzed with a body holding a known
\* subdirective and an unknown one, which got its Warning
C8_Witness ==
    /\ pc = "published"
    /\ \E p \in SchemaParents(file) : \E s1, s2 \in BodyOf(p) :
          /\ \E sb \in SiteBlocksOf(file) : \A k \in 1..Len(sb.directives) : sb.directives[k] # p
          /\ s1.name.value \in SubDirectivesFor(p.name.value).names
          /\ s2.name.value = "bogus"
          /\ Cardinality(WarningsAt(TokenRange(s2.name))) = 1

(***************************************************************************)
(* C9.  For a directive directly inside a site block that is not a snippet *)
(* (its first address is not of the form "(name)"), whose name is not in   *)
(* KnownTopLevel, does not start with "@" and is not "import": the         *)
(* analyzer emits exactly one Warning at the name token, the placement     *)
(* hint naming the parent when the name has one and "unknown directive"    *)
(* otherwise, and no Warning at any directive nested in its body.  The     *)
(* code breaks this: isSnippet looks only at the "(" prefix, so in a block *)
(* whose first address is "(foo" a name with a placement hint gets no      *)
(* Warning.                                                                *)
(***************************************************************************)
C9_UnknownSiteDirectiveWarning ==
    pc = "published" =>
        \A sb \in SiteBlocksOf(file) :
            (Len(sb.addresses) > 0 /\ ~parseSnippetName(sb.addresses[1].value).ok) =>
                \A k \in 1..Len(sb.directives) :
                    LET d == sb.directives[k]
                        name == d.name.value
                        at == DiagsAt(TokenRange(d.name))
                    IN  (name \notin KnownTopLevel /\ ~HasPrefix(name, "@") /\ name # "import")
                        => /\ Cardinality(at) = 1
                           /\ \A j \in at :
                                 /\ AnalyzerDiags[j].severity = "Warning"
                                 /\ AnalyzerDiags[j].message =
                                        IF HasPlacementHint(name)
                                        THEN Msg("%q must appear inside a %q block, not at the site level",
                                                 <<name, PlacementParent(name)>>)
                                        ELSE Msg("unknown directive %q", <<name>>)
                           /\ \A n \in DirectivesUnder(d.body) : WarningsAt(TokenRange(n.name)) = {}

(***************************************************************************)
(* C10.  The import directives the analyzer validates: those in the global *)
(* block, at site level, in the body of a directive with a known non-nil   *)
(* subdirective set, and in a subdirective body with a known schema.       *)
(***************************************************************************)
NestedSchemaBodies(p) ==
    UNION {BodyOf(s) : s \in {s \in BodyOf(p) :
              /\ s.name.value \in SubDirectivesFor(p.name.value).names
              /\ (IF Len(s.args) > 0 THEN s.name.value \o ":" \o s.args[1].value
                  ELSE s.name.value) \in DOMAIN knownSubSubDirectives}}

ValidatedImports(f) ==
    {d \in UNION {{g.directives[k] : k \in 1..Len(g.directives)} : g \in GlobalBlocksOf(f)}
           \cup SiteLevelDirectives(f)
           \cup UNION {BodyOf(p) \cup NestedSchemaBodies(p) : p \in SchemaParents(f)} :
        d.name.value = "import"}

\* the arguments the claim exempts: a path, a glob, or a placeholder
ExemptImportArg(arg) ==
    \/ Contains(arg, "/") \/ Contains(arg, "\\") \/ Contains(arg, "*")
    \/ HasPrefix(arg, ".")
    \/ (HasPrefix(arg, "{") /\ HasSuffix(arg, "}"))

ImportRanges(d) == {TokenRange(d.name)} \cup {TokenRange(d.args[k]) : k \in 1..Len(d.args)}

\* the Warning of a validated import that is not exempt: "undefined snippet", at
\* the argument, exactly when the argument is not a collected snippet name
UndefinedSnippetRule(d) ==
    LET arg == d.args[1].value
        names == CollectSnippetNames(file)
        undefined == {k \in 1..Len(AnalyzerDiags) :
                         /\ AnalyzerDiags[k].severity = "Warning"
                         /\ AnalyzerDiags[k].message = Msg("undefined snippet %q", <<arg>>)
                         /\ AnalyzerDiags[k].range \in ImportRanges(d)}
    IN  /\ undefined # {} <=> (\A k \in 1..Len(names) : names[k] # arg)
        /\ \A k \in undefined : AnalyzerDiags[k].range = TokenRange(d.args[1])
        /\ WarningsAt(TokenRange(d.name)) = {}

(***************************************************************************)
(* C10 as stated: a validated import with no argument or an exempt first   *)
(* argument gets no diagnostic at all; any other gets the "undefined       *)
(* snippet" Warning at its argument iff the argument is not a snippet      *)
(* name.  This fails: the brace-balance scan is independent of the import  *)
(* rule and reports an Error on an exempt argument such as "./x{".         *)
(***************************************************************************)
C10_ExemptImportNoDiagnostic ==
    pc = "published" =>
        \A d \in ValidatedImports(file) :
            IF Len(d.args) = 0 \/ ExemptImportArg(d.args[1].value)
            THEN \A r \in ImportRanges(d) : DiagsAt(r) = {}
            ELSE UndefinedSnippetRule(d)

(***************************************************************************)
(* C10 amended: a validated import with no argument or an exempt first     *)
(* argument gets no Warning (an Error of the brace-balance scan may still  *)
(* be reported on an argument); any other gets the "undefined snippet"     *)
(* Warning at its argument token iff the argument is not a name returned   *)
(* by CollectSnippetNames for the same File.                               *)
(***************************************************************************)
C10_ExemptImportNoWarning ==
    pc = "published" =>
        \A d \in ValidatedImports(file) :
            IF Len(d.args) = 0 \/ ExemptImportArg(d.args[1].value)
            THEN \A r \in ImportRanges(d) :
                    /\ WarningsAt(r) = {}
                    /\ \A k \in DiagsAt(r) :
                          AnalyzerDiags[k].message = Msg(checkPlaceholderBalance(d.args[1].value), <<>>)
            ELSE UndefinedSnippetRule(d)

\* a file whose global block imports an undefined snippet and whose site block
\* imports the path "./x{": the first got its Warning at the argument, the second
\* only the brace-balance Error
C10_Witness ==
    /\ pc = "published"
    /\ \E d1, d2 \in ValidatedImports(file) :
          /\ Len(d1.args) > 0 /\ d1.args[1].value = "nosuch"
          /\ WarningsAt(TokenRange(d1.args[1])) # {}
          /\ Len(d2.args) > 0 /\ d2.args[1].value = "./x{"
          /\ WarningsAt(TokenRange(d2.args[1])) = {}
          /\ DiagsAt(TokenRange(d2.args[1])) # {}

(***************************************************************************)
(* C11.  CollectSnippetNames(File) is the list of the snippet names the    *)
(* file declares, without parentheses, in strictly ascending order: every  *)
(* declared name appears exactly once, also when two site blocks declare   *)
(* the same name.  The code breaks this: it appends one name per block and *)
(* sorts, and never removes a duplicate.                                   *)
(***************************************************************************)
DeclaredSnippetNames(f) ==
    {parseSnippetName(sb.addresses[1].value).name :
        sb \in {b \in SiteBlocksOf(f) :
                   Len(b.addresses) > 0 /\ parseSnippetName(b.addresses[1].value).ok}}

C11_SnippetNamesSortedDistinct ==
    Returned =>
        LET names == CollectSnippetNames(file)
        IN  /\ {names[k] : k \in 1..Len(names)} = DeclaredSnippetNames(file)
            /\ \A k \in 1..(Len(names) - 1) : StrLess(names[k], names[k + 1])

(***************************************************************************)
(* Inputs 4: the strings of at most MaxBalanceLen bytes over "{", "}",     *)
(* "\" and an ordinary byte, handed to checkPlaceholderBalance.            *)
(***************************************************************************)
MaxBalanceLen == 5

BalanceAlphabet == {"{", "}", "\\", "a"}

RECURSIVE BalanceStrings(_)
BalanceStrings(n) ==
    IF n = 0 THEN {""}
    ELSE BalanceStrings(n - 1) \cup {t \o c : t \in BalanceStrings(n - 1), c \in BalanceAlphabet}

InitBalance ==
    /\ src \in BalanceStrings(MaxBalanceLen)
    /\ tokens = <<>>
    /\ pos = 1
    /\ errors = <<>>
    /\ file = EmptyFile
    /\ diags = <<>>
    /\ pc = "balance"
    /\ store = [u \in {} |-> ""]
    /\ ops = <<>>
    /\ reply = <<>>

\* a call of checkPlaceholderBalance(src)
CheckBalance ==
    /\ pc = "balance"
    /\ reply' = checkPlaceholderBalance(src)
    /\ pc' = "balanced"
    /\ UNCHANGED <<src, tokens, pos, errors, file, diags, store, ops>>

NextBalance == CheckBalance

SpecBalance == InitBalance /\ [][NextBalance]_vars

(***************************************************************************)
(* C12.  checkPlaceholderBalance(s) agrees with a reference depth counter: *)
(* a brace right after a "\" never counts; an unescaped "}" with no open   *)
(* "{" before it gives the "unmatched" message; otherwise more unescaped   *)
(* "{" than "}" gives the "unclosed" message; otherwise the result is "".  *)
(***************************************************************************)
UnescapedBraces(s, brace) ==
    {i \in 0..(Len(s) - 1) : ByteAt(s, i) = brace /\ ~(i > 0 /\ ByteAt(s, i - 1) = "\\")}

ReferenceBalance(s) ==
    LET opens == UnescapedBraces(s, "{")
        closes == UnescapedBraces(s, "}")
        depthBefore(i) == Cardinality({j \in opens : j < i}) - Cardinality({j \in closes : j < i})
    IN  IF \E i \in closes : depthBefore(i) <= 0
        THEN "unmatched '}': no opening '{' for this placeholder"
        ELSE IF Cardinality(opens) > Cardinality(closes)
        THEN "unclosed placeholder: '{' without matching '}'"
        ELSE ""

C12_BalanceAgreesWithReference == pc = "balanced" => reply = ReferenceBalance(src)

\* the scan skipped an escaped "}" and then met an unclosed "{"
C12_Witness ==
    /\ pc = "balanced"
    /\ src = "\\}{a"
    /\ reply = "unclosed placeholder: '{' without matching '}'"

(***************************************************************************)
(* Completion requests: once a document was analyzed, the editor asks for  *)
(* the names at a cursor line of it (Handler.Completion reads the text     *)
(* back from the store and parses it again, which gives the same File).    *)
(***************************************************************************)
CursorLines == 0..(LastLine + 1)

CompletionRequest ==
    /\ pc = "published"
    /\ \E cursorLine \in CursorLines :
          reply' = [line |-> cursorLine, result |-> completionNamesAt(file, cursorLine)]
    /\ pc' = "completed"
    /\ UNCHANGED <<src, tokens, pos, errors, file, diags, store, ops>>

NextCompletion == Next \/ CompletionRequest

SpecCompletion == InitDocs /\ [][NextCompletion]_vars

(***************************************************************************)
(* C13.  For a cursor line strictly inside a site block, the names offered *)
(* are those of the first directive d of the list with a body and          *)
(* d.StartLine < line < d.EndLine: for a container d, the names offered by *)
(* the same rule in d's body; otherwise exactly SubDirectivesFor(d.Name)   *)
(* when that is a known non-nil set and nothing when d is unmodeled or     *)
(* freeform; with no such d, exactly KnownTopLevel.  Every list offered is *)
(* in strictly ascending order.                                            *)
(***************************************************************************)
\* what the rule offers: [none |-> TRUE] or the set of names
RECURSIVE OfferedAt(_, _)
OfferedAt(ds, line) ==
    LET around == {k \in 1..Len(ds) :
                      /\ ds[k].opened
                      /\ ds[k].startLine < line /\ line < ds[k].endLine}
    IN  IF around = {} THEN [none |-> FALSE, names |-> KnownTopLevel]
        ELSE LET d == ds[CHOOSE k \in around : \A j \in around : k <= j]
             IN  IF d.name.value \in {"handle", "handle_errors", "handle_path", "route"}
                 THEN OfferedAt(d.body, line)
                 ELSE IF d.name.value \in DOMAIN knownSubDirectives
                         /\ ~knownSubDirectives[d.name.value].nil
                 THEN [none |-> FALSE, names |-> knownSubDirectives[d.name.value].names]
                 ELSE [none |-> TRUE, names |-> {}]

BlocksAround(line) ==
    {k \in 1..Len(file.siteBlocks) :
        file.siteBlocks[k].startLine < line /\ line < file.siteBlocks[k].endLine}

C13_NamesAtCursor ==
    (pc = "completed" /\ BlocksAround(reply.line) # {}) =>
        LET sb == file.siteBlocks[CHOOSE k \in BlocksAround(reply.line) :
                                     \A j \in BlocksAround(reply.line) : k <= j]
            offered == OfferedAt(sb.directives, reply.line)
            names == reply.result.names
        IN  /\ reply.result.nil = offered.none
            /\ {names[k] : k \in 1..Len(names)} = offered.names
            /\ \A k \in 1..(Len(names) - 1) : StrLess(names[k], names[k + 1])

\* the cursor was in the body of a reverse_proxy inside a handle block and the
\* reverse_proxy subdirectives were offered
C13_Witness ==
    /\ pc = "completed"
    /\ \E sb \in SiteBlocksOf(file) : \E k \in 1..Len(sb.directives) :
          /\ sb.directives[k].name.value = "handle"
          /\ \E j \in 1..Len(sb.directives[k].body) :
                /\ sb.directives[k].body[j].name.value = "reverse_proxy"
                /\ sb.directives[k].body[j].startLine < reply.line
                /\ reply.line < sb.directives[k].body[j].endLine
    /\ ~reply.result.nil
    /\ \E k \in 1..Len(reply.result.names) : reply.result.names[k] = "lb_policy"

(***************************************************************************)
(* The document store: a map from URI to content, every operation under    *)
(* the store's mutex, so that each operation is one step.  store is the    *)
(* docs map, ops the operations made so far, and reply what the last Get   *)
(* returned, with the number of operations that had been made before it.   *)
(*   pc = "store"      the Store was made by New and takes operations      *)
(***************************************************************************)
MaxOps == 3

URIs == {"file:///a", "file:///b"}

Texts == {"", "x"}

\* New: an empty docs map
New == [u \in {} |-> ""]

\* Store.Open: docs[uri] is a new Document with the text
Open(docs, uri, text) == [u \in DOMAIN docs \cup {uri} |-> IF u = uri THEN text ELSE docs[u]]

\* Update that leaves an absent uri absent
Update_ExistingOnly(docs, uri, text) ==
    IF uri \in DOMAIN docs THEN [docs EXCEPT ![uri] = text] ELSE docs

\* Store.Update: the Content of the stored Document is replaced, and an
\* absent uri gets a new Document
Update(docs, uri, text) ==
    IF uri \in DOMAIN docs
    THEN [docs EXCEPT ![uri] = text]
    ELSE [u \in DOMAIN docs \cup {uri} |-> IF u = uri THEN text ELSE docs[u]]

\* Store.Close: delete(docs, uri)
Close(docs, uri) == [u \in DOMAIN docs \ {uri} |-> docs[u]]

\* Store.Get: (Content, true) or ("", false)
Get(docs, uri) ==
    IF uri \notin DOMAIN docs THEN [text |-> "", ok |-> FALSE]
    ELSE [text |-> docs[uri], ok |-> TRUE]

InitStore ==
    /\ src = ""
    /\ tokens = <<>>
    /\ pos = 1
    /\ errors = <<>>
    /\ file = EmptyFile
    /\ diags = <<>>
    /\ pc = "store"
    /\ store = New
    /\ ops = <<>>
    /\ reply = <<>>

StoreOpen ==
    /\ pc = "store"
    /\ Len(ops) < MaxOps
    /\ \E uri \in URIs, text \in Texts :
          /\ store' = Open(store, uri, text)
          /\ ops' = Append(ops, [op |-> "Open", uri |-> uri, text |-> text])
    /\ UNCHANGED <<src, tokens, pos, errors, file, diags, pc, reply>>

StoreUpdate ==
    /\ pc = "store"
    /\ Len(ops) < MaxOps
    /\ \E uri \in URIs, text \in Texts :
          /\ store' = Update(store, uri, text)
          /\ ops' = Append(ops, [op |-> "Update", uri |-> uri, text |-> text])
    /\ UNCHANGED <<src, tokens, pos, errors, file, diags, pc, reply>>

StoreClose ==
    /\ pc = "store"
    /\ Len(ops) < MaxOps
    /\ \E uri \in URIs :
          /\ store' = Close(store, uri)
          /\ ops' = Append(ops, [op |-> "Close", uri |-> uri, text |-> ""])
    /\ UNCHANGED <<src, tokens, pos, errors, file, diags, pc, reply>>

StoreGet ==
    /\ pc = "store"
    /\ \E uri \in URIs :
          reply' = [uri |-> uri, after |-> Len(ops), result |-> Get(store, uri)]
    /\ UNCHANGED <<src, tokens, pos, errors, file, diags, pc, store, ops>>

NextStore == StoreOpen \/ StoreUpdate \/ StoreClose \/ StoreGet

SpecStore == InitStore /\ [][NextStore]_vars

(***************************************************************************)
(* C14.  After any sequence of Open, Update and Close, Get(uri) returns    *)
(* the text of the most recent Open or Update of that uri with true when   *)
(* no Close of that uri came after it, and ("", false) otherwise: so       *)
(* Update of an absent uri acts as Open, Close of an absent uri changes    *)
(* nothing, and operations on another uri are not seen.                    *)
(***************************************************************************)
\* what the history says Get(uri) returns
ExpectedGet(history, uri) ==
    LET mine == {k \in 1..Len(history) : history[k].uri = uri}
    IN  IF mine = {} THEN [text |-> "", ok |-> FALSE]
        ELSE LET last == history[CHOOSE k \in mine : \A j \in mine : j <= k]
             IN  IF last.op = "Close" THEN [text |-> "", ok |-> FALSE]
                 ELSE [text |-> last.text, ok |-> TRUE]

C14_GetFollowsHistory ==
    pc = "store" =>
        /\ \A uri \in URIs : Get(store, uri) = ExpectedGet(ops, uri)
        /\ reply # <<>> =>
              reply.result = ExpectedGet(SubSeq(ops, 1, reply.after), reply.uri)

\* Get returned the empty text of an Update made on a closed uri, after an
\* operation on the other uri
C14_Witness ==
    /\ pc = "store"
    /\ reply # <<>>
    /\ reply.after = 3
    /\ reply.result = [text |-> "", ok |-> TRUE]
    /\ ops[1].op = "Close" /\ ops[1].uri = reply.uri
    /\ ops[2].op = "Update" /\ ops[2].uri = reply.uri
    /\ ops[3].uri # reply.uri

(***************************************************************************)
(* C15.  The arguments of every directive returned by Parse are, in source *)
(* order, the tokens on the line of its name that follow the name and come *)
(* before the first "{" or "}" that follows the name on that line: every   *)
(* argument has the name's Line, and a token of the line after such a      *)
(* brace is not an argument of the directive.                              *)
(***************************************************************************)
Structural(tok) == tok.type \in {"LBRACE", "RBRACE"}

\* the non-structural tokens on the line of d's name, after the name
AfterNameOnLine(d) ==
    {t \in InputTokens :
        /\ t.type \in {"IDENT", "STRING"}
        /\ t.line = d.name.line
        /\ t.char > d.name.char}

\* those of them with no brace between the name and them
BeforeFirstBrace(d) ==
    {t \in AfterNameOnLine(d) :
        ~\E b \in InputTokens :
            /\ Structural(b)
            /\ b.line = d.name.line
            /\ d.name.char < b.char /\ b.char < t.char}

ArgsOf(d) == {d.args[k] : k \in 1..Len(d.args)}

ArgsInSourceOrder(d) ==
    /\ \A k \in 1..Len(d.args) : d.args[k].line = d.name.line
    /\ \A k \in 1..(Len(d.args) - 1) : d.args[k].char < d.args[k + 1].char

C15_ArgsUpToFirstBrace ==
    Returned =>
        \A d \in FileDirectives(file) :
            ArgsOf(d) = BeforeFirstBrace(d) /\ ArgsInSourceOrder(d)

\* C15 as stated: every non-structural token on the line of the name, after
\* the name, is an argument of the directive
C15_ArgsAreAllTokensOnLine ==
    Returned =>
        \A d \in FileDirectives(file) :
            ArgsOf(d) = AfterNameOnLine(d) /\ ArgsInSourceOrder(d)

\* a directive took one argument from its line and left an identifier that
\* follows a brace on that line to its body
C15_Witness ==
    /\ Returned
    /\ \E d \in FileDirectives(file) :
          /\ Len(d.args) = 1
          /\ Len(d.body) = 1
          /\ d.body[1].name \in AfterNameOnLine(d)

(***************************************************************************)
(* C16.  A brace never ends a bareword: an unquoted token is LBRACE when   *)
(* its whole text is "{", RBRACE when its whole text is "}", and IDENT     *)
(* otherwise; and in a source none of whose words begins with a quote or   *)
(* with "<<", the tokens are, in order, the maximal runs of non-whitespace *)
(* bytes, so that a "{...}" span inside a word stays in the one IDENT, as  *)
(* does an unpaired brace, and "{" is LBRACE exactly when it stands alone  *)
(* between whitespace, line boundaries or the ends of the input.           *)
(***************************************************************************)
\* strings.Fields for the model's whitespace: the maximal runs of other bytes
Fields(s) ==
    LET RECURSIVE Go(_, _, _)
        Go(i, cur, acc) ==
            IF i >= Len(s) THEN (IF cur = "" THEN acc ELSE Append(acc, cur))
            ELSE IF IsSpace(ByteAt(s, i))
            THEN Go(i + 1, "", IF cur = "" THEN acc ELSE Append(acc, cur))
            ELSE Go(i + 1, cur \o ByteAt(s, i), acc)
    IN  Go(0, "", <<>>)

Tokenized == pc # "source"

OnlyBarewords(s) ==
    \A k \in 1..Len(Fields(s)) :
        ~HasPrefix(Fields(s)[k], "\"") /\ ~HasPrefix(Fields(s)[k], "<<")

WholeTextDecidesType ==
    \A t \in InputTokens :
        /\ t.type \in {"IDENT", "STRING", "LBRACE", "RBRACE"}
        /\ t.type = "LBRACE" => t.value = "{"
        /\ t.type = "RBRACE" => t.value = "}"
        /\ t.type = "IDENT" => t.value \notin {"{", "}"}

NameWarnings(d) ==
    [count |-> Cardinality(WarningsAt(TokenRange(d.name))),
     messages |-> {AnalyzerDiags[k].message : k \in WarningsAt(TokenRange(d.name))}]

\* the directives reached from a directive list through container bodies only,
\* each with the number of containers around it
RECURSIVE SiteLevelAt(_, _)
SiteLevelAt(ds, depth) ==
    UNION {{[d |-> ds[k], depth |-> depth]}
           \cup (IF ds[k].name.value \in {"handle", "handle_errors", "handle_path", "route"}
                 THEN SiteLevelAt(ds[k].body, depth + 1) ELSE {}) : k \in 1..Len(ds)}

C17_ContainerBodySameAsSiteBlock ==
    pc = "published" =>
        \A sb \in SiteBlocksOf(file) :
            \A x, y \in SiteLevelAt(sb.directives, 0) :
                x.d.name.value = y.d.name.value => NameWarnings(x.d) = NameWarnings(y.d)

\* the placement hint Warning was given to "to" directly in a site block and to
\* "to" two containers down in the same block
C17_Witness ==
    /\ pc = "published"
    /\ \E sb \in SiteBlocksOf(file) :
          \E x, y \in SiteLevelAt(sb.directives, 0) :
              /\ x.depth = 0 /\ y.depth = 2
              /\ x.d.name.value = "to" /\ y.d.name.value = "to"
              /\ NameWarnings(x.d).count = 1
              /\ NameWarnings(y.d).count = 1

(***************************************************************************)
(* C18.  For a subdirective s that passed validation in the body of a      *)
(* directive P and has a body of its own, the vocabulary is looked up by   *)
(* s's name and the text of its first argument.  With a vocabulary, each   *)
(* name of s's body that is not in it, does not start with "@" and is not  *)
(* "import" gets exactly one Warning, which names it, P and the qualified  *)
(* parent (s's name, a space, the argument); every other name gets none.   *)
(* Without an argument, or with an unmodeled pair, no name gets a Warning. *)
(***************************************************************************)
ModeledPairs == {<<"transport", "http">>, <<"transport", "fastcgi">>}

\* the validated subdirectives of p that have a body
ValidatedWithBody(p) ==
    {s \in BodyOf(p) :
        s.name.value \in SubDirectivesFor(p.name.value).names /\ Len(s.body) > 0}

SubSubRule(p, s, n) ==
    LET modeled == Len(s.args) > 0 /\ <<s.name.value, s.args[1].value>> \in ModeledPairs
        at == WarningsAt(TokenRange(n.name))
        flagged == /\ modeled
                   /\ n.name.value
                        \notin knownSubSubDirectives[s.name.value \o ":" \o s.args[1].value]
                   /\ ~HasPrefix(n.name.value, "@")
                   /\ n.name.value # "import"
    IN  IF flagged
        THEN /\ Cardinality(at) = 1
             /\ \A k \in at :
                   AnalyzerDiags[k].message =
                       Msg("unknown subdirective %q for %q %q",
                           <<n.name.value, p.name.value,
                             s.name.value \o " " \o s.args[1].value>>)
        ELSE at = {}

C18_SubSubVocabularyByNameAndArgument ==
    pc = "published" =>
        \A p \in SchemaParents(file) : \A s \in ValidatedWithBody(p) : \A n \in BodyOf(s) :
            SubSubRule(p, s, n)

\* one reverse_proxy held a transport without argument, whose body name got no
\* Warning, and a "transport fastcgi", whose unknown body name got its Warning
\* and whose known body name got none
C18_Witness ==
    /\ pc = "published"
    /\ \E p \in SchemaParents(file) : \E s1, s2 \in ValidatedWithBody(p) :
          /\ Len(s1.args) = 0
          /\ \E n \in BodyOf(s1) : n.name.value = "bogus" /\ WarningsAt(TokenRange(n.name)) = {}
          /\ Len(s2.args) > 0 /\ s2.args[1].value = "fastcgi"
          /\ \E n \in BodyOf(s2) :
                n.name.value = "bogus" /\ Cardinality(WarningsAt(TokenRange(n.name))) = 1
          /\ \E n \in BodyOf(s2) : n.name.value = "env" /\ WarningsAt(TokenRange(n.name)) = {}

(***************************************************************************)
(* C19.  Wherever an import directive stands in the file (global block,    *)
(* site block, snippet body, container body, the body of a known, freeform *)
(* or unmodeled directive, a sub-subdirective body, or deeper), when its   *)
(* first argument is a bare name (no path, glob or placeholder) that is    *)
(* not a declared snippet, the analyzer emits the "undefined snippet"      *)
(* Warning at that argument.  The code breaks this: analyzeSiteDirective   *)
(* returns before the body of an unknown directive, analyzeDirectiveBody   *)
(* returns nil for a freeform or unmodeled parent and looks into a         *)
(* subdirective's body only for a modeled (name, argument) pair, and       *)
(* analyzeNestedBody goes no deeper.                                       *)
(***************************************************************************)
\* the import directives of the file, at any depth, with a bare undeclared name
UndeclaredImports(f) ==
    {d \in FileDirectives(f) :
        /\ d.name.value = "import"
        /\ Len(d.args) > 0
        /\ ~ExemptImportArg(d.args[1].value)
        /\ d.args[1].value \notin DeclaredSnippetNames(f)}

C19_ImportValidatedAtAnyDepth ==
    pc = "published" =>
        \A d \in UndeclaredImports(file) :
            \E k \in WarningsAt(TokenRange(d.args[1])) :
                AnalyzerDiags[k].message = Msg("undefined snippet %q", <<d.args[1].value>>)

(***************************************************************************)
(* C20.  For a site-level directive (directly in a block or inside nested  *)
(* containers) whose name is not in KnownTopLevel and does not start with  *)
(* "@": inside a snippet (a block whose first address is "(name)") a name  *)
(* with a placement hint gets no Warning and a name without one gets       *)
(* exactly one "unknown directive" Warning; outside snippets a name with a *)
(* placement hint gets exactly one placement-hint Warning.  The code       *)
(* breaks the last part: isSnippet looks only at the "(" prefix, so a      *)
(* block whose first address is "(foo" is treated as a snippet.            *)
(***************************************************************************)
IsSnippetBlock(sb) == Len(sb.addresses) > 0 /\ parseSnippetName(sb.addresses[1].value).ok

ExactlyOneWarning(d, message) ==
    /\ Cardinality(WarningsAt(TokenRange(d.name))) = 1
    /\ \A k \in WarningsAt(TokenRange(d.name)) : AnalyzerDiags[k].message = message

C20_PlacementHintOnlyOutsideSnippets ==
    pc = "published" =>
        \A sb \in SiteBlocksOf(file) : \A d \in SiteLevel(sb.directives) :
            LET name == d.name.value
            IN  (name \notin KnownTopLevel /\ ~HasPrefix(name, "@")) =>
                    IF ~HasPlacementHint(name)
                    THEN ExactlyOneWarning(d, Msg("unknown directive %q", <<name>>))
                    ELSE IF IsSnippetBlock(sb)
                    THEN WarningsAt(TokenRange(d.name)) = {}
                    ELSE ExactlyOneWarning(d,
                             Msg("%q must appear inside a %q block, not at the site level",
                                 <<name, PlacementParent(name)>>))

(***************************************************************************)
(* C21.  Inside the body of a snippet block (first address "(name)") no    *)
(* directive, at any depth, gets a placement-hint Warning; the rest of the *)
(* schema validation still runs there: a site-level name that is unknown   *)
(* and has no placement hint gets its "unknown directive" Warning, and an  *)
(* unknown name in the body of a directive with a known subdirective set   *)
(* gets its "unknown subdirective" Warning.                                *)
(***************************************************************************)
HintFormat == "%q must appear inside a %q block, not at the site level"

SchemaFormats ==
    {HintFormat, "unknown directive %q", "unknown subdirective %q for %q",
     "unknown subdirective %q for %q %q"}

\* the Warnings at the name of d whose message has one of the formats
WarningsOfFormat(d, formats) ==
    {k \in WarningsAt(TokenRange(d.name)) : AnalyzerDiags[k].message.format \in formats}

SnippetBlocks(f) == {sb \in SiteBlocksOf(f) : IsSnippetBlock(sb)}

C22_SnippetIffParenthesizedName ==
    pc = "published" =>
        \A sb \in SiteBlocksOf(file) :
            /\ isSnippet(sb) <=> IsSnippetBlock(sb)
            /\ isSnippet(sb) =>
                  \E k \in 1..Len(CollectSnippetNames(file)) :
                      "(" \o CollectSnippetNames(file)[k] \o ")" = sb.addresses[1].value

(***************************************************************************)
(* Inputs 5: Caddyfiles with balanced and unbalanced braces in an address  *)
(* and in an argument, the argument standing in the global block, in a     *)
(* site block, in a snippet, or in the body of an unknown, a freeform, a   *)
(* known or an unmodeled directive, up to three bodies deep.               *)
(***************************************************************************)
BraceTexts == {"x", "{x", "x}", "{x}", "}{", "a{b}c"}

BraceDocSources ==
    UNION {{"{\ndebug " \o arg \o "\n}\n" \o address \o " {\nto y\n}\n",
            address \o " {\nto " \o arg \o "\n}\n",
            "(snip) " \o address \o " {\nbogus " \o arg \o "\n}\n",
            address \o " {\nbogus {\nq " \o arg \o "\n}\n}\n",
            address \o " {\nheader {\nq " \o arg \o "\n}\n}\n",
            address \o " {\nreverse_proxy {\nto " \o arg \o "\n}\n}\n",
            address \o " {\nhandle {\nreverse_proxy {\ntransport x {\nq " \o arg \o " "
                \o arg \o "\n}\n}\n}\n}\n"} :
           address \in BraceTexts, arg \in BraceTexts}

InitBraceDocs == \E source \in BraceDocSources : InitWith(source)

SpecBraceDocs == InitBraceDocs /\ [][Next]_vars

(***************************************************************************)
(* C23.  For every address token and every argument token of the file,     *)
(* wherever it stands, the analyzer emits exactly one Error at the token's *)
(* range when the braces of its text are unbalanced and none when they are *)
(* balanced; at an LBRACE or RBRACE token it emits none.                   *)
(***************************************************************************)
AddressTokens(f) ==
    UNION {{sb.addresses[k] : k \in 1..Len(sb.addresses)} : sb \in SiteBlocksOf(f)}

ArgumentTokens(f) == UNION {ArgsOf(d) : d \in FileDirectives(f)}

ErrorsAt(rng) == {k \in DiagsAt(rng) : AnalyzerDiags[k].severity = "Error"}

C23_BraceBalanceOfEveryToken ==
    pc = "published" =>
        /\ \A t \in AddressTokens(file) \cup ArgumentTokens(file) :
              Cardinality(ErrorsAt(TokenRange(t)))
                  = (IF ReferenceBalance(t.value) # "" THEN 1 ELSE 0)
        /\ \A t \in InputTokens : Structural(t) => ErrorsAt(TokenRange(t)) = {}

\* an unbalanced argument four bodies down got its Error, next to an
\* unbalanced address, which got its own
C23_Witness ==
    /\ pc = "published"
    /\ \E sb \in SiteBlocksOf(file) :
          /\ ReferenceBalance(sb.addresses[1].value) # ""
          /\ Cardinality(ErrorsAt(TokenRange(sb.addresses[1]))) = 1
          /\ \E d \in DirectivesUnder(sb.directives) :
                /\ d.name.value = "q" /\ Len(d.args) = 2
                /\ ReferenceBalance(d.args[2].value) # ""
                /\ Cardinality(ErrorsAt(TokenRange(d.args[2]))) = 1

(***************************************************************************)
(* Inputs 6: Caddyfiles whose global block holds up to two directives: a   *)
(* known option, an unknown one, a matcher name, an import, a known option *)
(* with a body; with and without a site block after it.                    *)
(***************************************************************************)
GlobalLines ==
    {"debug\n", "bogus x\n", "@m\n", "import nosuch\n", "email {\nbogus\n}\n", "to x\n"}

GlobalDocSources ==
    {"{\n" \o first \o second \o "}\n" \o site :
        first \in GlobalLines \cup {""},
        second \in GlobalLines,
        site \in {"", "example.com {\nbogus\n}\n"}}

InitGlobalDocs == \E source \in GlobalDocSources : InitWith(source)

SpecGlobalDocs == InitGlobalDocs /\ [][Next]_vars

(***************************************************************************)
(* C24.  For every directive directly inside the global block the analyzer *)
(* emits exactly one "unknown global option" Warning at the name when the  *)
(* name is not in KnownGlobalOptions and none when it is.  The code breaks *)
(* this: analyzeGlobalDirective returns at once for a name that starts     *)
(* with "@".                                                               *)
(***************************************************************************)
GlobalDirectives(f) ==
    UNION {{g.directives[k] : k \in 1..Len(g.directives)} : g \in GlobalBlocksOf(f)}

C24_UnknownGlobalOptionWarning ==
    pc = "published" =>
        \A d \in GlobalDirectives(file) :
            /\ Cardinality(WarningsOfFormat(d, {"unknown global option %q"}))
                   = (IF d.name.value \in KnownGlobalOptions THEN 0 ELSE 1)
            /\ \A k \in WarningsOfFormat(d, {"unknown global option %q"}) :
                   AnalyzerDiags[k].message.args = <<d.name.value>>

(***************************************************************************)
(* Completion requests on the sources of Inputs 2, the malformed ones      *)
(* included.                                                               *)
(***************************************************************************)
SpecWordsCompletion == InitWords /\ [][NextCompletion]_vars

(***************************************************************************)
(* C25.  completionNamesAt offers names only for a cursor line strictly    *)
(* between the StartLine and the EndLine of some site block; and every     *)
(* line strictly between a site block's opening line and the end of the    *)
(* block is treated as inside it, also when the block is closed only by    *)
(* the end of the input.  The code breaks the last part: a site block      *)
(* unclosed at EOF keeps EndLine 0, so no line is inside it.               *)
(***************************************************************************)
\* the line on which a site block ends: that of its "}", or the last line of
\* the input for a block left open
IntendedEnd(sb) == IF sb.closed THEN sb.endLine ELSE LastLine

IntendedAround(line) ==
    {k \in 1..Len(file.siteBlocks) :
        /\ file.siteBlocks[k].opened
        /\ file.siteBlocks[k].startLine < line
        /\ line < IntendedEnd(file.siteBlocks[k])}

C25_InsideSiteBlockLines ==
    pc = "completed" =>
        /\ ~reply.result.nil => BlocksAround(reply.line) # {}
        /\ IntendedAround(reply.line) # {} =>
              reply.result =
                  directiveNamesAt(
                      file.siteBlocks[CHOOSE k \in IntendedAround(reply.line) :
                                         \A j \in IntendedAround(reply.line) : k <= j].directives,
                      reply.line)

(***************************************************************************)
(* The line-role check of Handler.Completion (completion.go): the text of  *)
(* the cursor's line before the cursor decides between snippet names       *)
(* (importArgPrefix), directive names (atFirstTokenPosition) and nothing.  *)
(* A position is (line, character), both from 0.                           *)
(*   pc = "role"    a document text is in src                              *)
(*   pc = "roled"   reply holds the position and what the check answered   *)
(***************************************************************************)
\* strings.Split(content, "\n")
SplitLines(content) == StringsSplitNL(content)

\* strings.TrimLeft(s, " \t")
RECURSIVE TrimLeftBlanks(_)
TrimLeftBlanks(s) ==
    IF s # "" /\ ByteAt(s, 0) \in {" ", "\t"} THEN TrimLeftBlanks(Slice(s, 1, Len(s))) ELSE s

\* strings.ContainsAny(s, " \t")
ContainsBlank(s) == \E i \in 0..(Len(s) - 1) : ByteAt(s, i) \in {" ", "\t"}

NotFound == [ok |-> FALSE, arg |-> ""]

importArgPrefix(content, line, character) ==
    LET lines == SplitLines(content)
    IN  IF line >= Len(lines) THEN NotFound
        ELSE
        LET text == lines[line + 1]
            col == IF character > Len(text) THEN Len(text) ELSE character
            prefix == TrimLeftBlanks(Slice(text, 0, col))
            found == HasPrefix(prefix, "import")
            rest == IF found THEN Slice(prefix, 6, Len(prefix)) ELSE prefix
        IN  IF ~found \/ Len(rest) = 0 \/ ByteAt(rest, 0) \notin {" ", "\t"} THEN NotFound
            ELSE IF ContainsBlank(TrimLeftBlanks(rest)) THEN NotFound
            ELSE [ok |-> TRUE, arg |-> TrimLeftBlanks(rest)]

atFirstTokenPosition(content, line, character) ==
    LET lines == SplitLines(content)
    IN  IF line >= Len(lines) THEN FALSE
        ELSE
        LET text == lines[line + 1]
            charIdx == IF character > Len(text) THEN Len(text) ELSE character
        IN  ~ContainsBlank(TrimLeftBlanks(Slice(text, 0, charIdx)))

\* Handler.Completion: which list it goes on to build
CompletionRole(content, line, character) ==
    IF importArgPrefix(content, line, character).ok THEN "snippets"
    ELSE IF ~atFirstTokenPosition(content, line, character) THEN "none"
    ELSE "directives"

MaxLineParts == 4

LineParts == {"import", " ", "\t", "a", "Ee", "\n"}

LineSources == {Join(cs) : cs \in UNION {[1..n -> LineParts] : n \in 0..MaxLineParts}}

InitLineRole ==
    /\ src \in LineSources
    /\ tokens = <<>>
    /\ pos = 1
    /\ errors = <<>>
    /\ file = EmptyFile
    /\ diags = <<>>
    /\ pc = "role"
    /\ store = New
    /\ ops = <<>>
    /\ reply = <<>>

\* a completion request at a position of the document, up to one line and one
\* character past its end
LineRoleRequest ==
    /\ pc = "role"
    /\ \E line \in 0..Len(SplitLines(src)), character \in 0..(Len(src) + 1) :
          reply' = [line |-> line, character |-> character,
                    import |-> importArgPrefix(src, line, character),
                    first |-> atFirstTokenPosition(src, line, character),
                    role |-> CompletionRole(src, line, character)]
    /\ pc' = "roled"
    /\ UNCHANGED <<src, tokens, pos, errors, file, diags, store, ops>>

NextLineRole == LineRoleRequest

SpecLineRole == InitLineRole /\ [][NextLineRole]_vars

(***************************************************************************)
(* C26.  With T the text of the cursor's line before the cursor (the       *)
(* character index clamped to the line's end), without its leading spaces  *)
(* and tabs: the cursor is a directive-name position iff T holds no space  *)
(* or tab; it is an import-argument position iff T is "import", at least   *)
(* one space or tab, and a partial token without space or tab, which is    *)
(* the prefix returned; the two exclude each other, any other position     *)
(* gives no completion, and so does a line index past the last line.  The  *)
(* code breaks this for a line with a multi-byte character before the      *)
(* cursor: it cuts the line at the byte with the cursor's index.           *)
(***************************************************************************)
\* the first n characters of the line, n clamped to the line's length
BeforeCursor(text, character) ==
    RuneSlice(text, 0, IF character > RuneCount(text) THEN RuneCount(text) ELSE character)

\* the text T of the claim for the position kept in reply
StrippedBeforeCursor ==
    TrimLeftBlanks(BeforeCursor(SplitLines(src)[reply.line + 1], reply.character))

\* T is "import", then spaces or tabs, then a token without any
ImportThenPartial(t) ==
    /\ HasPrefix(t, "import")
    /\ Len(t) > 6 /\ ByteAt(t, 6) \in {" ", "\t"}
    /\ ~ContainsBlank(TrimLeftBlanks(Slice(t, 6, Len(t))))

C26_LineRole ==
    pc = "roled" =>
        IF reply.line >= Len(SplitLines(src))
        THEN ~reply.first /\ ~reply.import.ok /\ reply.role = "none"
        ELSE /\ reply.first <=> ~ContainsBlank(StrippedBeforeCursor)
             /\ reply.import.ok <=> ImportThenPartial(StrippedBeforeCursor)
             /\ reply.import.ok =>
                   reply.import.arg = TrimLeftBlanks(Slice(StrippedBeforeCursor, 6,
                                                           Len(StrippedBeforeCursor)))
             /\ ~(reply.first /\ reply.import.ok)
             /\ reply.role = (IF reply.import.ok THEN "snippets"
                              ELSE IF reply.first THEN "directives" ELSE "none")

(***************************************************************************)
(* C27.  Every name offered at a cursor line is a name the analyzer        *)
(* accepts there: a directive of that name standing alone on the line, in  *)
(* the body the cursor is in (the innermost block whose lines surround the *)
(* cursor), gets no "unknown directive", placement hint or "unknown        *)
(* subdirective" Warning from Analyze.  The code breaks this inside the    *)
(* body of a sub-subdirective parent such as "transport http".             *)
(***************************************************************************)
\* a directive named N alone on a line: no argument, no body
PlacedDirective(N, line) ==
    [name |-> Token("IDENT", N, line, 0), args |-> <<>>, body |-> <<>>,
     startLine |-> line, endLine |-> line, opened |-> FALSE, closed |-> FALSE]

\* the directive list with d added to the innermost body around the line
RECURSIVE PlaceIn(_, _, _)
PlaceIn(ds, line, d) ==
    LET around == {k \in 1..Len(ds) : ds[k].startLine < line /\ line < ds[k].endLine}
    IN  IF around = {} THEN Append(ds, d)
        ELSE LET k == CHOOSE i \in around : \A j \in around : i <= j
             IN  [ds EXCEPT ![k].body = PlaceIn(@, line, d)]

\* the File with d added to the site block around the line
PlaceInFile(f, line, d) ==
    LET k == CHOOSE i \in BlocksAround(line) : \A j \in BlocksAround(line) : i <= j
    IN  [f EXCEPT !.siteBlocks[k].directives = PlaceIn(@, line, d)]

\* the analyzer's schema Warnings for a directive named N placed on the line
SchemaWarningsFor(N, line) ==
    LET d == PlacedDirective(N, line)
        ds == Analyze(PlaceInFile(file, line, d))
    IN  {j \in 1..Len(ds) :
            /\ ds[j].severity = "Warning"
            /\ ds[j].range = TokenRange(d.name)
            /\ ds[j].message.format \in SchemaFormats
            /\ ds[j].message.args[1] = N}

C27_OfferedNamesAccepted ==
    (pc = "completed" /\ ~reply.result.nil) =>
        \A k \in 1..Len(reply.result.names) :
            SchemaWarningsFor(reply.result.names[k], reply.line) = {}

(***************************************************************************)
(* C28.  Parse loses no content: once it has returned, the IDENT and       *)
(* STRING tokens of the input are, in source order and each exactly once,  *)
(* the addresses, directive names and arguments of the File (global block  *)
(* first, then the site blocks; in a block the addresses, then each        *)
(* directive's name, arguments and body), error recovery included.  The    *)
(* code breaks this at a stray "}" met while addresses are collected: the  *)
(* addresses collected so far are dropped with it.                         *)
(***************************************************************************)
\* the tokens of a directive list as the tree holds them, in tree order
RECURSIVE TreeTokens(_)
TreeTokens(ds) ==
    IF ds = <<>> THEN <<>>
    ELSE <<Head(ds).name>> \o Head(ds).args \o TreeTokens(Head(ds).body)
         \o TreeTokens(Tail(ds))

RECURSIVE SiteBlockTokens(_)
SiteBlockTokens(sbs) ==
    IF sbs = <<>> THEN <<>>
    ELSE Head(sbs).addresses \o TreeTokens(Head(sbs).directives) \o SiteBlockTokens(Tail(sbs))

FileTokens(f) ==
    (IF f.globalBlock = <<>> THEN <<>> ELSE TreeTokens(f.globalBlock[1].directives))
    \o SiteBlockTokens(f.siteBlocks)

\* the IDENT and STRING tokens of the input, in source order
ContentTokens == SelectSeq(tokens, LAMBDA t : t.type \in {"IDENT", "STRING"})

C28_NoContentLost == Returned => FileTokens(file) = ContentTokens

(***************************************************************************)
(* C29.  The line ranges of a File returned by Parse are well nested:      *)
(* every block (global block, site block, directive) starts no later than  *)
(* it ends; every directive of a block's body lies within the block's      *)
(* range; and siblings (the site blocks after the global block, the        *)
(* directives of one body) come in non-decreasing StartLine order --       *)
(* for malformed inputs too.  The code breaks this for a block that is     *)
(* never closed, whose EndLine is never assigned.                          *)
(***************************************************************************)
\* the directives of a list lie within start..end, in non-decreasing order
Within(ds, start, end) ==
    /\ \A k \in 1..Len(ds) : start <= ds[k].startLine /\ ds[k].endLine <= end
    /\ \A k \in 1..(Len(ds) - 1) : ds[k].startLine <= ds[k + 1].startLine

\* the blocks of the File with their bodies
FileBlocks(f) ==
    {[startLine |-> b.startLine, endLine |-> b.endLine, body |-> b.directives] :
        b \in SiteBlocksOf(f) \cup GlobalBlocksOf(f)}
    \cup {[startLine |-> d.startLine, endLine |-> d.endLine, body |-> d.body] :
            d \in FileDirectives(f)}

\* the global block and the site blocks, as the File lists them
TopLevelStarts(f) ==
    [k \in 1..Len(f.globalBlock) |-> f.globalBlock[k].startLine]
    \o [k \in 1..Len(f.siteBlocks) |-> f.siteBlocks[k].startLine]

C29_LineRangesWellNested ==
    Returned =>
        /\ \A B \in FileBlocks(file) :
              B.startLine <= B.endLine /\ Within(B.body, B.startLine, B.endLine)
        /\ \A k \in 1..(Len(TopLevelStarts(file)) - 1) :
              TopLevelStarts(file)[k] <= TopLevelStarts(file)[k + 1]

(***************************************************************************)
(* The document handlers (text_document.go, diagnostics.go), run           *)
(* concurrently.  A handler is a process: its store call is one step (the  *)
(* store's mutex makes it atomic), and Handler.Analyze -- Parse, Analyze   *)
(* and ctx.Notify on the handler's own text -- is a later step; nothing    *)
(* in the handlers orders the steps of two of them.                        *)
(*                                                                         *)
(*   pc     "handlers"                                                     *)
(*   ops    the handlers started so far, each with its request, its local  *)
(*          text, its position at ("start", "stored": the store call is    *)
(*          done and Analyze is to come, "done": returned) and what it     *)
(*          did (wrote: it wrote the store; published: it notified)        *)
(*   store  the Store's docs                                               *)
(*   reply  for each URI, the Diagnostics of the last                      *)
(*          textDocument/publishDiagnostics notification sent for it       *)
(***************************************************************************)
MaxHandlers == 3

MaxChanges == 2

HandlerTexts == {"a {\n}\n", "a {\nbogus\n}\n"}

\* parseFile's loop, run to its end; sb is the value parseSiteBlock returned
RECURSIVE ParseSiteBlocks(_, _, _, _)
ParseSiteBlocks(toks, p, errs, f) ==
    IF peek(toks, p).type = "EOF" THEN [file |-> f, errors |-> errs]
    ELSE CHOOSE r \in {ParseSiteBlocks(toks, sb.pos, sb.errors,
                                       IF sb.ok THEN [f EXCEPT !.siteBlocks = Append(@, sb.node)]
                                       ELSE f) :
                          sb \in {parseSiteBlock(toks, p, errs)}} : TRUE

\* parseFile on the tokens of Parse
parseFile(toks) ==
    IF peek(toks, 1).type = "LBRACE"
    THEN CHOOSE r \in {ParseSiteBlocks(toks, g.pos, g.errors,
                                       [EmptyFile EXCEPT !.globalBlock = <<g.node>>]) :
                          g \in {parseGlobalBlock(toks, 1, <<>>)}} : TRUE
    ELSE ParseSiteBlocks(toks, 1, <<>>, EmptyFile)

\* Parse: "tokens := Tokenize(src)", then parseFile
Parse(source) == CHOOSE r \in {parseFile(toks) : toks \in {Tokenize(source)}} : TRUE

\* the Diagnostics Handler.Analyze notifies for a content: ast and parseErrors
\* are the values Parse returned, bound once
AnalyzedDiagnostics ==
    [content \in HandlerTexts |->
        CHOOSE ds \in {PublishedDiagnostics(parsed.file, parsed.errors) :
                          parsed \in {Parse(content)}} : TRUE]

\* the requests of the client: params.ContentChanges of a DidChange is the
\* list changes, params.Text of a DidSave is nil when hasText is FALSE
Requests ==
    {[op |-> "DidOpen", uri |-> uri, changes |-> <<>>, hasText |-> TRUE, text |-> text] :
        uri \in URIs, text \in HandlerTexts}
    \cup {[op |-> "DidChange", uri |-> uri, changes |-> cs, hasText |-> FALSE, text |-> ""] :
            uri \in URIs, cs \in UNION {[1..n -> HandlerTexts] : n \in 0..MaxChanges}}
    \cup {[op |-> "DidSave", uri |-> uri, changes |-> <<>>, hasText |-> TRUE, text |-> text] :
            uri \in URIs, text \in HandlerTexts}
    \cup {[op |-> "DidSave", uri |-> uri, changes |-> <<>>, hasText |-> FALSE, text |-> ""] :
            uri \in URIs}
    \cup {[op |-> "DidClose", uri |-> uri, changes |-> <<>>, hasText |-> FALSE, text |-> ""] :
            uri \in URIs}

InitHandlers ==
    /\ src = ""
    /\ tokens = <<>>
    /\ pos = 1
    /\ errors = <<>>
    /\ file = EmptyFile
    /\ diags = <<>>
    /\ pc = "handlers"
    /\ store = New
    /\ ops = <<>>
    /\ reply = [u \in {} |-> <<>>]

\* the server dispatches a notification of the client to its handler
HandlerStart ==
    /\ pc = "handlers"
    /\ Len(ops) < MaxHandlers
    /\ \E r \in Requests :
          ops' = Append(ops, [op |-> r.op, uri |-> r.uri, changes |-> r.changes,
                              hasText |-> r.hasText, text |-> r.text,
                              at |-> "start", wrote |-> FALSE, published |-> FALSE])
    /\ UNCHANGED <<src, tokens, pos, errors, file, diags, pc, store, reply>>

\* DidOpen up to "h.store.Open(uri, text)"
DidOpen(k) ==
    /\ pc = "handlers"
    /\ ops[k].op = "DidOpen" /\ ops[k].at = "start"
    /\ store' = Open(store, ops[k].uri, ops[k].text)
    /\ ops' = [ops EXCEPT ![k].at = "stored", ![k].wrote = TRUE]
    /\ UNCHANGED <<src, tokens, pos, errors, file, diags, pc, reply>>

\* DidChange up to "h.store.Update(uri, text)", or its return for an empty
\* change list
DidChange(k) ==
    /\ pc = "handlers"
    /\ ops[k].op = "DidChange" /\ ops[k].at = "start"
    /\ IF Len(ops[k].changes) = 0
       THEN /\ ops' = [ops EXCEPT ![k].at = "done"]
            /\ UNCHANGED store
       ELSE LET text == ops[k].changes[Len(ops[k].changes)]
            IN  /\ store' = Update(store, ops[k].uri, text)
                /\ ops' = [ops EXCEPT ![k].at = "stored", ![k].text = text, ![k].wrote = TRUE]
    /\ UNCHANGED <<src, tokens, pos, errors, file, diags, pc, reply>>

\* DidSave up to its store call: Update with params.Text, or Get and the
\* return for an absent document
DidSave(k) ==
    /\ pc = "handlers"
    /\ ops[k].op = "DidSave" /\ ops[k].at = "start"
    /\ IF ops[k].hasText
       THEN /\ store' = Update(store, ops[k].uri, ops[k].text)
            /\ ops' = [ops EXCEPT ![k].at = "stored", ![k].wrote = TRUE]
       ELSE LET got == Get(store, ops[k].uri)
            IN  /\ ops' = IF got.ok THEN [ops EXCEPT ![k].at = "stored", ![k].text = got.text]
                          ELSE [ops EXCEPT ![k].at = "done"]
                /\ UNCHANGED store
    /\ UNCHANGED <<src, tokens, pos, errors, file, diags, pc, reply>>

\* DidClose
DidClose(k) ==
    /\ pc = "handlers"
    /\ ops[k].op = "DidClose" /\ ops[k].at = "start"
    /\ store' = Close(store, ops[k].uri)
    /\ ops' = [ops EXCEPT ![k].at = "done", ![k].wrote = TRUE]
    /\ UNCHANGED <<src, tokens, pos, errors, file, diags, pc, reply>>

\* "h.Analyze(ctx, uri, text)" and the handler's return
HandlerAnalyze(k) ==
    /\ pc = "handlers"
    /\ ops[k].at = "stored"
    /\ reply' = [u \in DOMAIN reply \cup {ops[k].uri} |->
                    IF u = ops[k].uri THEN AnalyzedDiagnostics[ops[k].text] ELSE reply[u]]
    /\ ops' = [ops EXCEPT ![k].at = "done", ![k].published = TRUE]
    /\ UNCHANGED <<src, tokens, pos, errors, file, diags, pc, store>>

NextHandlers ==
    \/ HandlerStart
    \/ \E k \in 1..Len(ops) : DidOpen(k)
    \/ \E k \in 1..Len(ops) : DidChange(k)
    \/ \E k \in 1..Len(ops) : DidSave(k)
    \/ \E k \in 1..Len(ops) : DidClose(k)
    \/ \E k \in 1..Len(ops) : HandlerAnalyze(k)

SpecHandlers == InitHandlers /\ [][NextHandlers]_vars

(***************************************************************************)
(* C30.  Published diagnostics never go stale: whenever every handler      *)
(* started (DidOpen, DidChange, DidSave, in any interleaving) has          *)
(* returned, the Diagnostics last published for a URI are those of the     *)
(* text Store.Get returns for it; and a DidChange with an empty change     *)
(* list neither writes the store nor publishes.  The code breaks the first *)
(* part: a handler publishes for its own text after another handler has    *)
(* replaced it in the store and published.                                 *)
(***************************************************************************)
AllReturned == \A k \in 1..Len(ops) : ops[k].at = "done"

C30_PublishedNeverStale ==
    (pc = "handlers" /\ AllReturned) =>
        /\ (\A k \in 1..Len(ops) : ops[k].op # "DidClose") =>
              \A uri \in DOMAIN reply :
                  /\ Get(store, uri).ok
                  /\ reply[uri] = AnalyzedDiagnostics[Get(store, uri).text]
        /\ \A k \in 1..Len(ops) :
              (ops[k].op = "DidChange" /\ Len(ops[k].changes) = 0)
              => ~ops[k].wrote /\ ~ops[k].published

====
